---- MODULE Spec2Model ----
(***************************************************************************)
(* A model of agrpc::GrpcContext: the outstanding-work counter, the        *)
(* stopped and shutdown flags, the local and the remote work queue, the    *)
(* completion queue with its wake-up alarm, the run/poll loops and the     *)
(* destructor.  One thread (the loop thread) calls run*(), poll*() and the *)
(* destructor; NumThreads other threads post operations and call stop(),   *)
(* work_started() and work_finished().                                     *)
(***************************************************************************)
EXTENDS Integers, Sequences, FiniteSets, TLC

\* ------------------------------------------------------------- bounds
MaxOps == 3          \* operations ever created (ids 1..MaxOps, never reused)
NumThreads == 2      \* threads other than the loop thread
MaxUserWork == 1     \* work_started() calls not yet matched, beyond the operations' own
MaxUnderflow == 1    \* unmatched work_finished() calls (the counter may go negative)
MaxCqOps == 2        \* operations created in the completion-queue specification
MaxWorkOps == 2      \* operations created in the work-counting specification
MaxRpcOps == 4       \* step operations started on the call of the RPC specification
MaxThrowOps == 4     \* operations created in the specification with throwing handlers
MaxLifeOps == 1      \* operations created in the life-cycle specification
MaxReuseOps == 2     \* operation objects created in the specification with re-used objects
MaxInvocations == 2  \* times one operation object is enqueued and invoked
MaxNotifyOps == 3     \* operations created in the notify-when-done specification
MaxSignals == 1      \* cancellation signals emitted on the slot of a call's steps
MaxStepTags == 3     \* tags one step registers, one after the other

\* GrpcContext() : GrpcContext(std::make_unique<grpc::CompletionQueue>(), 1)
ConcurrencyHint == 1

MaxOpId == IF MaxThrowOps > MaxOps THEN MaxThrowOps ELSE MaxOps
Ops == 1..MaxOpId
Threads == 1..NumThreads
RpcOps == 1..MaxRpcOps

VARIABLES
    outstanding_work,   \* std::atomic_long outstanding_work
    stopped,            \* std::atomic_bool stopped
    shutdown,           \* std::atomic_bool shutdown
    check_remote_work,  \* bool check_remote_work
    local_work_queue,   \* LocalWorkQueue: FIFO of operations
    remote_head,        \* RemoteWorkQueue: the chain hanging off the atomic head, newest first
    remote_active,      \* RemoteWorkQueue: the active marker
    alarm_events,       \* wake-up events posted by the work alarm, not yet delivered
    cq_events,          \* completion events ready in the completion queue: [tag, ok]
    registered,         \* operations whose tag is registered, event not yet produced
    cq_state,           \* "open", "shutdown" (Shutdown() called), "drained"
    memory_resources,   \* number of arenas alive
    lpc,                \* the loop thread's position
    kind,               \* which run*/poll* call the loop thread is in
    pass,               \* process_local_queue: the queue moved out of local_work_queue
    processed_local,    \* this iteration's DoOneResult: processed local work
    processed,          \* process_work: the value the call will return
    run_result,         \* the value the last run*/poll* call returned
    rpc,                \* each other thread's position
    rop,                \* the operation a thread is posting
    nextOp,             \* next unused operation id
    origin,             \* history: how each operation was submitted
    invoked,            \* history: how many times each operation's callback ran
    run_cb,             \* history: a queued handler ran during the current call
    run_ev,             \* history: a completion-queue event was taken during the current call
    entry_pair,         \* history: the current call is the first after an idle work_started/work_finished pair
    wpair,              \* history: 1 after work_started() from 0, 2 after the matching work_finished()
    blocked_stop,       \* history: stop() was called while run() was blocked in the wait
    rpc_type,           \* the call's type, "none" before the RPC object exists
    rpc_writes_done,    \* RPC: set_writes_done() has been called
    rpc_finished,       \* RPC: set_finished() has been called
    rpc_status,         \* RPC: status(), written by the transport when Finish completes
    status_known,       \* a Finish event of the call has been taken from the completion queue
    response,           \* the response buffer handed to the unary request
    op_verb,            \* per step operation: the verb it carries
    op_sub,             \* per step operation: the N of the self<N> its tag stands for
    op_call,            \* per step operation: the call its pending tag was handed to
    op_last,            \* per step operation: WriteOptions::is_last_message()
    op_first_ok,        \* history: the ok flag of the operation's first event
    op_tags,            \* history: how many tags the operation registered
    handler_calls,      \* history: how many times the operation's completion handler ran
    op_result,          \* history: what the completion handler was given
    next_rpc_op,        \* next unused step operation id
    try_cancel,         \* ClientContext::TryCancel() has been requested
    start_failed,       \* transport: the StartCall event was delivered with ok = false
    emitted,            \* history: the cancellation types emitted on the steps' slot
    finish_tags         \* history: how many Finish tags were registered for the call

vars == <<outstanding_work, stopped, shutdown, check_remote_work, local_work_queue,
          remote_head, remote_active, alarm_events, cq_events, registered, cq_state,
          memory_resources, lpc, kind, pass, processed_local, processed, run_result,
          rpc, rop, nextOp, origin, invoked, run_cb, run_ev, entry_pair, wpair,
          blocked_stop, rpc_type, rpc_writes_done, rpc_finished, rpc_status, status_known,
          response, op_verb, op_sub, op_call, op_last, op_first_ok, op_tags, handler_calls,
          op_result, next_rpc_op, try_cancel, start_failed, emitted,
          finish_tags>>

ctxFlags == <<shutdown, cq_state, memory_resources>>
remoteQ == <<remote_head, remote_active>>
loopLocals == <<kind, pass, processed_local, processed, run_result>>
runHist == <<run_cb, run_ev, entry_pair>>
threadVars == <<rpc, rop>>
rpcFlags == <<rpc_type, rpc_writes_done, rpc_finished, rpc_status, status_known, response>>
rpcOpVars == <<op_verb, op_sub, op_call, op_last, op_first_ok, op_tags, handler_calls,
               op_result, next_rpc_op>>
rpcVars == <<rpcFlags, rpcOpVars, try_cancel, start_failed, emitted, finish_tags>>

\* ------------------------------------------------------------- helpers
RECURSIVE Reverse(_)
Reverse(s) ==
    IF s = <<>> THEN <<>> ELSE Append(Reverse(Tail(s)), Head(s))

Range(s) == {s[i] : i \in 1..Len(s)}

\* IntrusiveQueue: push_back links at the back, pop_front takes the earliest-pushed,
\* append links a whole queue behind the current contents.
\* Variant: links at the front.
push_back_AtFront(q, o) == <<o>> \o q

push_back(q, o) == Append(q, o)

\* Variant: hands out the operation at the back.
front_Back(q) == q[Len(q)]

front(q) == Head(q)

pop_front(q) == Tail(q)

append(q, other) == q \o other

\* AtomicIntrusiveQueue: producers link in front of the head; the consumer detaches
\* the whole chain and reverses it, which restores the order of submission.
chain_push(chain, o) == <<o>> \o chain

\* Variant: the detached chain is used as it is, newest first.
make_reversed_Unreversed(chain) == chain

make_reversed(chain) == Reverse(chain)

\* Units of work held by explicit work_started() calls: the counter less the unit
\* each created, not yet completed operation holds.
UserUnits == outstanding_work - Cardinality({o \in 1..(nextOp - 1) : invoked[o] = 0})

\* How an operation was submitted (history).
NoOrigin == <<"none", 0>>

LocalOrigin == <<"local", 0>>

TagOrigin == <<"tag", 0>>

ThreadOrigin(t) == <<"thread", t>>

\* The operation is a callback registered with notify_when_done.
NotifyOrigin == <<"notify", 0>>

DtorPcs == {"d_shutdown_flag", "d_cq_shutdown", "d_drain", "d_release", "destroyed"}

Alive == lpc \notin DtorPcs

\* ------------------------------------------------------------- the run*/poll* calls
Kinds == {"run", "run_completion_queue", "poll", "run_until", "run_while",
          "poll_completion_queue"}

\* Variant: run_completion_queue() and poll_completion_queue() built on do_one too.
LoopBody_AlwaysDoOne(k) == "do_one_if_not_stopped"

\* The loop function each call hands to process_work.
LoopBody(k) ==
    IF k \in {"run_completion_queue", "poll_completion_queue"}
    THEN "do_one_completion_queue_if_not_stopped"
    ELSE "do_one_if_not_stopped"

\* Variant: run() passes the deadline of poll().
Deadline_RunPolls(k) ==
    CASE k \in {"run_completion_queue", "run_while"} -> "INFINITE_FUTURE"
      [] k \in {"run", "poll", "poll_completion_queue"} -> "TIME_ZERO"
      [] OTHER -> "deadline"

\* Variant: run_until() passes the unbounded deadline of run().
Deadline_UntilUnbounded(k) ==
    CASE k \in {"run", "run_completion_queue", "run_while", "run_until"} -> "INFINITE_FUTURE"
      [] OTHER -> "TIME_ZERO"

\* Variant: poll() and poll_completion_queue() pass the unbounded deadline.
Deadline_PollUnbounded(k) ==
    CASE k \in {"run", "run_completion_queue", "run_while", "poll",
                "poll_completion_queue"} -> "INFINITE_FUTURE"
      [] OTHER -> "deadline"

\* The deadline each call hands to its loop function.
Deadline(k) ==
    CASE k \in {"run", "run_completion_queue", "run_while"} -> "INFINITE_FUTURE"
      [] k \in {"poll", "poll_completion_queue"} -> "TIME_ZERO"
      [] OTHER -> "deadline"

\* run_while: the condition is evaluated first in every iteration.
HasCondition(k) == k = "run_while"

\* detail::DoOneResult
DoOneResult(handled, local) == [handled_event |-> handled, processed_local |-> local]

ResultBool(result) == result.handled_event \/ result.processed_local

\* Variant: the full loop reports completion-queue events only.
GrpcContextLoopFunction_has_processed_EventOnly(result) == result.handled_event

GrpcContextLoopFunction_has_processed(result) == ResultBool(result)

GrpcContextCompletionQueueLoopFunction_has_processed(result) == result.handled_event

has_processed(k, result) ==
    IF LoopBody(k) = "do_one_completion_queue_if_not_stopped"
    THEN GrpcContextCompletionQueueLoopFunction_has_processed(result)
    ELSE GrpcContextLoopFunction_has_processed(result)

\* ------------------------------------------------------------- stop / work counting
\* Variant: the test of the calling thread is inverted.
StopProceeds_InThreadOnly(old_stopped, in_this_thread) == ~old_stopped /\ in_this_thread

\* Variant: the value the exchange returned is not looked at.
StopProceeds_IgnoresFlag(old_stopped, in_this_thread) == ~in_this_thread

\* Variant: the calling thread is not looked at.
StopProceeds_AnyThread(old_stopped, in_this_thread) == ~old_stopped

\* stop(): after stopped.exchange(true) returned old_stopped, go on to
\* try_mark_active() only if the flag was clear and the caller is not the loop thread.
StopProceeds(old_stopped, in_this_thread) == ~old_stopped /\ ~in_this_thread

\* Variant: stop() is called whenever the counter was at or below 1.
WorkFinishedStops_AtOrBelowOne(old) == old <= 1

\* work_finished(): fetch_sub returns the old value; stop() is called when it was 1.
WorkFinishedStops(old) == old = 1

\* Variant: the counter is read, not decremented.
FetchSub_LoadOnly(c) == c

FetchSub(c) == c - 1

\* Variant: the unit of work is counted twice.
FetchAdd_Twice(c) == c + 2

FetchAdd(c) == c + 1

\* ------------------------------------------------------------- initial state
Init ==
    /\ outstanding_work = 0
    /\ stopped = FALSE
    /\ shutdown = FALSE
    /\ check_remote_work = FALSE
    /\ local_work_queue = <<>>
    /\ remote_head = <<>>
    /\ remote_active = FALSE
    /\ alarm_events = 0
    /\ cq_events = {}
    /\ registered = {}
    /\ cq_state = "open"
    /\ memory_resources = ConcurrencyHint
    /\ lpc = "idle"
    /\ kind = "run"
    /\ pass = <<>>
    /\ processed_local = FALSE
    /\ processed = FALSE
    /\ run_result = FALSE
    /\ rpc = [t \in Threads |-> "idle"]
    /\ rop = [t \in Threads |-> 0]
    /\ nextOp = 1
    /\ origin = [o \in Ops |-> NoOrigin]
    /\ invoked = [o \in Ops |-> 0]
    /\ run_cb = FALSE
    /\ run_ev = FALSE
    /\ entry_pair = FALSE
    /\ wpair = 0
    /\ blocked_stop = FALSE
    /\ rpc_type = "none"
    /\ rpc_writes_done = FALSE
    /\ rpc_finished = FALSE
    /\ rpc_status = "OK"
    /\ status_known = FALSE
    /\ response = 0
    /\ op_verb = [o \in RpcOps |-> "none"]
    /\ op_sub = [o \in RpcOps |-> 0]
    /\ op_call = [o \in RpcOps |-> "none"]
    /\ op_last = [o \in RpcOps |-> FALSE]
    /\ op_first_ok = [o \in RpcOps |-> "none"]
    /\ op_tags = [o \in RpcOps |-> 0]
    /\ handler_calls = [o \in RpcOps |-> 0]
    /\ op_result = [o \in RpcOps |-> "none"]
    /\ next_rpc_op = 1
    /\ try_cancel = FALSE
    /\ start_failed = FALSE
    /\ emitted = <<>>
    /\ finish_tags = 0

\* ------------------------------------------------------------- other threads
\* add_operation from a thread that is not running the loop: work_started(), then
\* the operation goes to the remote queue.
Post(t, max) ==
    /\ Alive /\ rpc[t] = "idle" /\ nextOp <= max
    /\ outstanding_work' = FetchAdd(outstanding_work)
    /\ rop' = [rop EXCEPT ![t] = nextOp]
    /\ rpc' = [rpc EXCEPT ![t] = "enqueue"]
    /\ origin' = [origin EXCEPT ![nextOp] = ThreadOrigin(t)]
    /\ nextOp' = nextOp + 1
    /\ wpair' = 0
    /\ UNCHANGED <<stopped, check_remote_work, local_work_queue, remoteQ, alarm_events,
                   cq_events, registered, ctxFlags, lpc, loopLocals, invoked, runHist,
                   blocked_stop, rpcVars>>

\* AtomicIntrusiveQueue::enqueue: one compare-and-swap links the operation in front
\* of the chain and marks the queue active; it reports whether the queue was inactive.
enqueue_was_inactive(active) == ~active

Enqueue(t) ==
    /\ rpc[t] = "enqueue"
    /\ remote_head' = chain_push(remote_head, rop[t])
    /\ remote_active' = TRUE
    /\ rpc' = [rpc EXCEPT ![t] = IF enqueue_was_inactive(remote_active)
                                  THEN "alarm" ELSE "idle"]
    /\ rop' = [rop EXCEPT ![t] = 0]
    /\ UNCHANGED <<outstanding_work, stopped, check_remote_work, local_work_queue,
                   alarm_events, cq_events, registered, ctxFlags, lpc, loopLocals, nextOp,
                   origin, invoked, runHist, wpair, blocked_stop, rpcVars>>

\* trigger_work_alarm: the alarm posts one wake-up event to the completion queue.
TriggerAlarm(t) ==
    /\ rpc[t] = "alarm"
    /\ alarm_events' = alarm_events + 1
    /\ rpc' = [rpc EXCEPT ![t] = "idle"]
    /\ UNCHANGED <<outstanding_work, stopped, check_remote_work, local_work_queue, remoteQ,
                   cq_events, registered, ctxFlags, lpc, loopLocals, rop, nextOp, origin,
                   invoked, runHist, wpair, blocked_stop, rpcVars>>

\* run() is parked in the completion queue's wait: unbounded deadline, nothing ready.
BlockedInRun ==
    /\ lpc = "wait" /\ kind = "run"
    /\ local_work_queue = <<>> /\ ~check_remote_work
    /\ alarm_events = 0 /\ cq_events = {}
    /\ outstanding_work > 0

\* Variant: stop() goes on to the alarm without try_mark_active().
StopExchange_NoMark(t) ==
    /\ stopped' = TRUE
    /\ rpc' = [rpc EXCEPT ![t] = IF StopProceeds(stopped, FALSE) THEN "alarm" ELSE "idle"]

\* stop(), first step: stopped.exchange(true).
StopExchange(t) ==
    /\ stopped' = TRUE
    /\ rpc' = [rpc EXCEPT ![t] = IF StopProceeds(stopped, FALSE) THEN "mark" ELSE "idle"]

CallStop(t) ==
    /\ Alive /\ rpc[t] = "idle"
    /\ StopExchange(t)
    /\ blocked_stop' = (blocked_stop \/ BlockedInRun)
    /\ UNCHANGED <<outstanding_work, check_remote_work, local_work_queue, remoteQ,
                   alarm_events, cq_events, registered, ctxFlags, lpc, loopLocals, rop,
                   nextOp, origin, invoked, runHist, wpair, rpcVars>>

\* stop() reached from work_finished().
StopFromWorkFinished(t) ==
    /\ rpc[t] = "stop"
    /\ StopExchange(t)
    /\ UNCHANGED <<outstanding_work, check_remote_work, local_work_queue, remoteQ,
                   alarm_events, cq_events, registered, ctxFlags, lpc, loopLocals, rop,
                   nextOp, origin, invoked, runHist, wpair, blocked_stop, rpcVars>>

\* stop(), second step: remote_work_queue.try_mark_active().
try_mark_active(active) == ~active

TryMarkActive(t) ==
    /\ rpc[t] = "mark"
    /\ remote_active' = TRUE
    /\ rpc' = [rpc EXCEPT ![t] = IF try_mark_active(remote_active) THEN "alarm" ELSE "idle"]
    /\ UNCHANGED <<outstanding_work, stopped, check_remote_work, local_work_queue,
                   remote_head, alarm_events, cq_events, registered, ctxFlags, lpc,
                   loopLocals, rop, nextOp, origin, invoked, runHist, wpair, blocked_stop, rpcVars>>

WorkStarted(t) ==
    /\ Alive /\ rpc[t] = "idle"
    /\ UserUnits < MaxUserWork
    /\ outstanding_work' = FetchAdd(outstanding_work)
    /\ wpair' = IF outstanding_work = 0 /\ UserUnits = 0 /\ lpc = "idle" THEN 1 ELSE 0
    /\ UNCHANGED <<stopped, check_remote_work, local_work_queue, remoteQ, alarm_events,
                   cq_events, registered, ctxFlags, lpc, loopLocals, threadVars, nextOp,
                   origin, invoked, runHist, blocked_stop, rpcVars>>

WorkFinished(t) ==
    /\ Alive /\ rpc[t] = "idle"
    /\ UserUnits > -MaxUnderflow
    /\ outstanding_work' = FetchSub(outstanding_work)
    /\ rpc' = [rpc EXCEPT ![t] = IF WorkFinishedStops(outstanding_work)
                                  THEN "stop" ELSE "idle"]
    /\ wpair' = IF wpair = 1 /\ lpc = "idle" THEN 2 ELSE 0
    /\ UNCHANGED <<stopped, check_remote_work, local_work_queue, remoteQ, alarm_events,
                   cq_events, registered, ctxFlags, lpc, loopLocals, rop, nextOp, origin,
                   invoked, runHist, blocked_stop, rpcVars>>

\* Variant: the remote queue's active marker is cleared as well.
Reset_ClearsActive(t) ==
    /\ Alive /\ rpc[t] = "idle"
    /\ stopped' = FALSE
    /\ remote_active' = FALSE
    /\ UNCHANGED <<outstanding_work, check_remote_work, local_work_queue, remote_head,
                   alarm_events, cq_events, registered, ctxFlags, lpc, loopLocals,
                   threadVars, nextOp, origin, invoked, runHist, wpair, blocked_stop,
                   rpcVars>>

\* reset(): stopped.store(false).
Reset(t) ==
    /\ Alive /\ rpc[t] = "idle"
    /\ stopped' = FALSE
    /\ UNCHANGED <<outstanding_work, check_remote_work, local_work_queue, remoteQ,
                   alarm_events, cq_events, registered, ctxFlags, lpc, loopLocals,
                   threadVars, nextOp, origin, invoked, runHist, wpair, blocked_stop,
                   rpcVars>>

\* ------------------------------------------------------------- the completion source
\* Variant: the tag stays registered after its event was produced.
CompleteTag_KeepsRegistered(o, ok) ==
    /\ cq_state = "open" /\ o \in registered
    /\ cq_events' = cq_events \cup {[tag |-> o, ok |-> ok]}
    /\ UNCHANGED <<outstanding_work, stopped, check_remote_work, local_work_queue, remoteQ,
                   alarm_events, registered, ctxFlags, lpc, loopLocals, threadVars, nextOp,
                   origin, invoked, runHist, wpair, blocked_stop, rpcVars>>

\* The transport finishes a registered operation: its event, ok or not, becomes ready.
CompleteTag(o, ok) ==
    /\ cq_state = "open" /\ o \in registered
    /\ registered' = registered \ {o}
    /\ cq_events' = cq_events \cup {[tag |-> o, ok |-> ok]}
    /\ UNCHANGED <<outstanding_work, stopped, check_remote_work, local_work_queue, remoteQ,
                   alarm_events, ctxFlags, lpc, loopLocals, threadVars, nextOp, origin,
                   invoked, runHist, wpair, blocked_stop, rpcVars>>

\* ------------------------------------------------------------- the loop thread
\* The thread initiates an asynchronous step outside of run(): work_started(), then
\* the tag is registered with the completion source.
InitiateStep(max) ==
    /\ lpc = "idle" /\ nextOp <= max
    /\ outstanding_work' = FetchAdd(outstanding_work)
    /\ registered' = registered \cup {nextOp}
    /\ origin' = [origin EXCEPT ![nextOp] = TagOrigin]
    /\ nextOp' = nextOp + 1
    /\ wpair' = 0
    /\ UNCHANGED <<stopped, check_remote_work, local_work_queue, remoteQ, alarm_events,
                   cq_events, ctxFlags, lpc, loopLocals, threadVars, invoked, runHist,
                   blocked_stop, rpcVars>>

\* notify_when_done(grpc_context, server_context, handler), called outside of run():
\* the callback joins the context's notify_when_done_list and its tag is handed to
\* the call (AsyncNotifyWhenDone), which delivers it once the call is done.
NotifyWhenDone(max) ==
    /\ lpc = "idle" /\ nextOp <= max
    /\ outstanding_work' = FetchAdd(outstanding_work)
    /\ registered' = registered \cup {nextOp}
    /\ origin' = [origin EXCEPT ![nextOp] = NotifyOrigin]
    /\ nextOp' = nextOp + 1
    /\ wpair' = 0
    /\ UNCHANGED <<stopped, check_remote_work, local_work_queue, remoteQ, alarm_events,
                   cq_events, ctxFlags, lpc, loopLocals, threadVars, invoked, runHist,
                   blocked_stop, rpcVars>>

\* process_work, entry: without outstanding work the context is stopped and the call
\* returns false; otherwise reset() and the loop starts.
RunEnter(k) ==
    /\ lpc = "idle"
    /\ kind' = k
    /\ entry_pair' = (wpair = 2)
    /\ run_cb' = FALSE /\ run_ev' = FALSE
    /\ processed' = FALSE
    /\ IF outstanding_work = 0
       THEN /\ stopped' = TRUE
            /\ run_result' = FALSE
            /\ lpc' = "ret"
       ELSE /\ stopped' = FALSE
            /\ run_result' = run_result
            /\ lpc' = "top"
    /\ UNCHANGED <<outstanding_work, shutdown, check_remote_work, local_work_queue, remoteQ,
                   alarm_events, cq_events, registered, cq_state, memory_resources, pass,
                   processed_local, threadVars, nextOp, origin, invoked, wpair,
                   blocked_stop, rpcVars>>

\* The loop function returned a result that is false: the call returns `processed`.
Return ==
    /\ lpc' = "ret"
    /\ run_result' = processed

\* Variant: the condition is looked at after an operation of the local queue has run.
LoopConditionFalse_AfterDoOne ==
    /\ lpc = "top" /\ HasCondition(kind) /\ local_work_queue # <<>>
    /\ local_work_queue' = pop_front(local_work_queue)
    /\ invoked' = [invoked EXCEPT ![front(local_work_queue)] = @ + 1]
    /\ outstanding_work' = FetchSub(outstanding_work)
    /\ lpc' = "ret"
    /\ run_result' = TRUE
    /\ UNCHANGED <<stopped, check_remote_work, remoteQ, alarm_events, cq_events,
                   registered, ctxFlags, kind, pass, processed_local, processed,
                   threadVars, nextOp, origin, runHist, wpair, blocked_stop, rpcVars>>

\* run_while: the condition returned false, the loop function returns DoOneResult{}.
LoopConditionFalse ==
    /\ lpc = "top" /\ HasCondition(kind)
    /\ Return
    /\ UNCHANGED <<outstanding_work, stopped, check_remote_work, local_work_queue, remoteQ,
                   alarm_events, cq_events, registered, ctxFlags, kind, pass,
                   processed_local, processed, threadVars, nextOp, origin, invoked,
                   runHist, wpair, blocked_stop, rpcVars>>

\* Variant: the chain is detached but the remote queue is left marked active.
LoopTop_KeepsActive ==
    /\ lpc = "top"
    /\ IF stopped
       THEN /\ Return
            /\ UNCHANGED <<check_remote_work, local_work_queue, remoteQ, pass,
                           processed_local>>
       ELSE /\ UNCHANGED run_result
            /\ processed_local' = FALSE
            /\ IF LoopBody(kind) = "do_one_if_not_stopped"
               THEN /\ lpc' = "invoke"
                    /\ local_work_queue' = <<>>
                    /\ IF check_remote_work
                       THEN /\ pass' = append(local_work_queue, make_reversed(remote_head))
                            /\ remote_head' = <<>>
                            /\ remote_active' = remote_active
                            /\ check_remote_work' = FALSE
                       ELSE /\ pass' = local_work_queue
                            /\ UNCHANGED <<remoteQ, check_remote_work>>
               ELSE /\ lpc' = "wait"
                    /\ UNCHANGED <<check_remote_work, local_work_queue, remoteQ, pass>>
    /\ UNCHANGED <<outstanding_work, stopped, alarm_events, cq_events, registered, ctxFlags,
                   kind, processed, threadVars, nextOp, origin, invoked, runHist, wpair,
                   blocked_stop, rpcVars>>

\* do_one_if_not_stopped / do_one_completion_queue_if_not_stopped: a stopped context
\* ends the loop; otherwise do_one starts by moving the remote work to the local queue
\* (if the wake-up event was seen) and taking the local queue for this pass.
LoopTop ==
    /\ lpc = "top"
    /\ IF stopped
       THEN /\ Return
            /\ UNCHANGED <<check_remote_work, local_work_queue, remoteQ, pass,
                           processed_local>>
       ELSE /\ UNCHANGED run_result
            /\ processed_local' = FALSE
            /\ IF LoopBody(kind) = "do_one_if_not_stopped"
               THEN /\ lpc' = "invoke"
                    /\ local_work_queue' = <<>>
                    /\ IF check_remote_work
                       THEN /\ pass' = append(local_work_queue, make_reversed(remote_head))
                            /\ remote_head' = <<>>
                            /\ remote_active' = FALSE
                            /\ check_remote_work' = FALSE
                       ELSE /\ pass' = local_work_queue
                            /\ UNCHANGED <<remoteQ, check_remote_work>>
               ELSE /\ lpc' = "wait"
                    /\ UNCHANGED <<check_remote_work, local_work_queue, remoteQ, pass>>
    /\ UNCHANGED <<outstanding_work, stopped, alarm_events, cq_events, registered, ctxFlags,
                   kind, processed, threadVars, nextOp, origin, invoked, runHist, wpair,
                   blocked_stop, rpcVars>>

\* What a completion handler may do while it runs on the loop thread.
Effects == {"none", "post", "post2", "initiate", "stop"}

\* An operation completes on the loop thread: its handler runs (and may post one or
\* two handlers, which go to the local queue, initiate a step, call stop(), or put
\* the operation object itself back: into the local queue, "repost", or with the
\* completion source as the tag of a further step, "reinitiate"; or register a
\* notify-when-done callback for a call, "notify"), then
\* the operation's unit of work is given back with work_finished().  stop() from
\* the loop thread goes through the same code as from any thread.
Complete(o, eff, max) ==
    LET again == eff \in {"repost", "reinitiate"}
        new == CASE eff \in {"post", "initiate", "notify"} -> 1
                 [] eff = "post2" -> 2
                 [] OTHER -> 0
        old == CASE new = 1 \/ again -> FetchAdd(outstanding_work)
                 [] new = 2 -> FetchAdd(FetchAdd(outstanding_work))
                 [] OTHER -> outstanding_work
        calls_stop == eff = "stop" \/ WorkFinishedStops(old)
        marks == calls_stop /\ StopProceeds(stopped, TRUE) /\ try_mark_active(remote_active)
    IN  /\ nextOp + new - 1 <= max
        /\ again => invoked[o] + 1 < MaxInvocations
        /\ invoked' = [invoked EXCEPT ![o] = @ + 1]
        /\ local_work_queue' =
              CASE eff = "post" -> push_back(local_work_queue, nextOp)
                [] eff = "post2" -> push_back(push_back(local_work_queue, nextOp), nextOp + 1)
                [] eff = "repost" -> push_back(local_work_queue, o)
                [] OTHER -> local_work_queue
        /\ registered' = CASE eff \in {"initiate", "notify"} -> registered \cup {nextOp}
                           [] eff = "reinitiate" -> registered \cup {o}
                           [] OTHER -> registered
        /\ origin' = [x \in Ops |->
                        IF x \in nextOp..(nextOp + new - 1)
                        THEN (CASE eff = "initiate" -> TagOrigin
                                [] eff = "notify" -> NotifyOrigin
                                [] OTHER -> LocalOrigin)
                        ELSE origin[x]]
        /\ nextOp' = nextOp + new
        /\ outstanding_work' = FetchSub(old)
        /\ stopped' = (stopped \/ calls_stop)
        /\ remote_active' = (remote_active \/ marks)
        /\ alarm_events' = IF marks THEN alarm_events + 1 ELSE alarm_events
        /\ wpair' = 0

\* Variant: the callback runs while the operation is still linked and the pop comes
\* after it; a callback that put the object back into the local queue has reset
\* its next-pointer, so the pop finds no successor.
InvokeLocal_PopAfterCallback(eff, max) ==
    /\ lpc = "invoke" /\ pass # <<>>
    /\ pass' = IF eff = "repost" THEN <<>> ELSE pop_front(pass)
    /\ Complete(front(pass), eff, max)
    /\ processed_local' = TRUE
    /\ run_cb' = TRUE
    /\ UNCHANGED <<shutdown, check_remote_work, remote_head, cq_events, cq_state,
                   memory_resources, lpc, kind, processed, run_result, threadVars, run_ev,
                   entry_pair, blocked_stop, rpcVars>>

\* process_local_queue: the next operation of this pass is popped, then completed.
InvokeLocal(eff, max) ==
    /\ lpc = "invoke" /\ pass # <<>>
    /\ pass' = pop_front(pass)
    /\ Complete(front(pass), eff, max)
    /\ processed_local' = TRUE
    /\ run_cb' = TRUE
    /\ UNCHANGED <<shutdown, check_remote_work, remote_head, cq_events, cq_state,
                   memory_resources, lpc, kind, processed, run_result, threadVars, run_ev,
                   entry_pair, blocked_stop, rpcVars>>

\* The iteration ends: process_work accumulates has_processed(result) and goes on
\* while the result is true.
EndIteration(handled) ==
    LET result == DoOneResult(handled, processed_local)
    IN  /\ processed' = (processed \/ has_processed(kind, result))
        /\ IF ResultBool(result)
           THEN lpc' = "top" /\ run_result' = run_result
           ELSE lpc' = "ret" /\ run_result' = processed'

\* do_one, after the local pass: a context stopped meanwhile is not made to wait;
\* otherwise the completion queue is asked for the next event.
AfterLocal ==
    /\ lpc = "invoke" /\ pass = <<>>
    /\ IF stopped
       THEN EndIteration(FALSE)
       ELSE lpc' = "wait" /\ UNCHANGED <<processed, run_result>>
    /\ UNCHANGED <<outstanding_work, stopped, check_remote_work, local_work_queue, remoteQ,
                   alarm_events, cq_events, registered, ctxFlags, kind, pass,
                   processed_local, threadVars, nextOp, origin, invoked, runHist, wpair,
                   blocked_stop, rpcVars>>

\* The deadline of the wait: zero while more completed work is pending.
WaitDeadline ==
    IF /\ LoopBody(kind) = "do_one_if_not_stopped"
       /\ (check_remote_work \/ local_work_queue # <<>>)
    THEN "TIME_ZERO"
    ELSE Deadline(kind)

\* handle_next_completion_queue_event: the wake-up event of the work alarm.
WaitWake ==
    /\ lpc = "wait" /\ alarm_events > 0
    /\ alarm_events' = alarm_events - 1
    /\ check_remote_work' = TRUE
    /\ run_ev' = TRUE
    /\ EndIteration(TRUE)
    /\ UNCHANGED <<outstanding_work, stopped, local_work_queue, remoteQ, cq_events,
                   registered, ctxFlags, kind, pass, processed_local, threadVars, nextOp,
                   origin, invoked, run_cb, entry_pair, wpair, blocked_stop, rpcVars>>

\* handle_next_completion_queue_event: an operation's event; the tag is turned back
\* into the operation, which completes with the delivered outcome.
WaitTag(e, eff, max) ==
    /\ lpc = "wait" /\ e \in cq_events
    /\ cq_events' = cq_events \ {e}
    /\ Complete(e.tag, eff, max)
    /\ run_ev' = TRUE
    /\ EndIteration(TRUE)
    /\ UNCHANGED <<shutdown, check_remote_work, remote_head, cq_state, memory_resources,
                   kind, pass, processed_local, threadVars, run_cb, entry_pair,
                   blocked_stop, rpcVars>>

\* handle_next_completion_queue_event: nothing became ready before the deadline.
WaitTimeout ==
    /\ lpc = "wait" /\ alarm_events = 0 /\ cq_events = {}
    /\ WaitDeadline # "INFINITE_FUTURE"
    /\ EndIteration(FALSE)
    /\ UNCHANGED <<outstanding_work, stopped, check_remote_work, local_work_queue, remoteQ,
                   alarm_events, cq_events, registered, ctxFlags, kind, pass,
                   processed_local, threadVars, nextOp, origin, invoked, runHist, wpair,
                   blocked_stop, rpcVars>>

\* The call has returned; the thread is outside of run() again.
RunReturn ==
    /\ lpc = "ret"
    /\ lpc' = "idle"
    /\ kind' = "run" /\ processed' = FALSE /\ processed_local' = FALSE
    /\ run_result' = FALSE
    /\ run_cb' = FALSE /\ run_ev' = FALSE /\ entry_pair' = FALSE
    /\ blocked_stop' = FALSE
    /\ UNCHANGED <<outstanding_work, stopped, check_remote_work, local_work_queue, remoteQ,
                   alarm_events, cq_events, registered, ctxFlags, pass, threadVars,
                   nextOp, origin, invoked, wpair, rpcVars>>

\* ------------------------------------------------------------- exceptions
\* What is left of a pass when a handler throws goes back in front of the local
\* queue, in its order.
\* Variant: the rest of the pass is dropped.
requeue_unprocessed_Dropped(rest, q) == q

requeue_unprocessed(rest, q) == rest \o q

\* A queued handler throws: its operation has been popped, its unit of work is given
\* back on the way out, and the exception leaves the run*/poll* call.
ThrowingHandler(o) ==
    LET calls_stop == WorkFinishedStops(outstanding_work)
        marks == calls_stop /\ StopProceeds(stopped, TRUE) /\ try_mark_active(remote_active)
    IN  /\ invoked' = [invoked EXCEPT ![o] = @ + 1]
        /\ outstanding_work' = FetchSub(outstanding_work)
        /\ stopped' = (stopped \/ calls_stop)
        /\ remote_active' = (remote_active \/ marks)
        /\ alarm_events' = IF marks THEN alarm_events + 1 ELSE alarm_events
        /\ wpair' = 0
        /\ UNCHANGED <<registered, origin, nextOp>>

InvokeLocalThrows ==
    /\ lpc = "invoke" /\ pass # <<>>
    /\ ThrowingHandler(front(pass))
    /\ local_work_queue' = requeue_unprocessed(pop_front(pass), local_work_queue)
    /\ pass' = <<>>
    /\ lpc' = "thrown"
    /\ run_cb' = TRUE
    /\ UNCHANGED <<shutdown, check_remote_work, remote_head, cq_events, cq_state,
                   memory_resources, kind, processed_local, processed, run_result,
                   threadVars, run_ev, entry_pair, blocked_stop, rpcVars>>

\* The handler of a completion-queue event throws.
WaitTagThrows(e) ==
    /\ lpc = "wait" /\ e \in cq_events
    /\ cq_events' = cq_events \ {e}
    /\ ThrowingHandler(e.tag)
    /\ local_work_queue' = local_work_queue
    /\ lpc' = "thrown"
    /\ run_ev' = TRUE
    /\ UNCHANGED <<shutdown, check_remote_work, remote_head, cq_state, memory_resources,
                   kind, pass, processed_local, processed, run_result, threadVars, run_cb,
                   entry_pair, blocked_stop, rpcVars>>

\* The exception has reached the caller of run*/poll*; the context is as the handler
\* left it.
RunRethrow ==
    /\ lpc = "thrown"
    /\ lpc' = "idle"
    /\ kind' = "run" /\ processed' = FALSE /\ processed_local' = FALSE
    /\ run_result' = FALSE
    /\ run_cb' = FALSE /\ run_ev' = FALSE /\ entry_pair' = FALSE
    /\ blocked_stop' = FALSE
    /\ UNCHANGED <<outstanding_work, stopped, check_remote_work, local_work_queue, remoteQ,
                   alarm_events, cq_events, registered, ctxFlags, pass, threadVars,
                   nextOp, origin, invoked, wpair, rpcVars>>

\* ------------------------------------------------------------- high-level client
\* The senders of agrpc::RPC: what initiate() hands to the call and what done() does
\* with the event of each tag.
TestRequest == 42

TestResponse == 21

RpcTypes == {"unary", "client_streaming", "server_streaming", "bidi"}

VerbsOf(type) ==
    CASE type = "unary" -> {"request"}
      [] type = "client_streaming" -> {"start", "read_initial_metadata", "write", "finish"}
      [] type = "server_streaming" -> {"start", "read_initial_metadata", "read", "finish"}
      [] type = "bidi" -> {"start", "read_initial_metadata", "read", "write", "writes_done",
                           "finish"}
      [] OTHER -> {}

\* RPCAccess::client_initiate_finish: set_finished(), work_started(), Finish(status, tag).
\* Variant: the Finish is started with the call not marked finished.
client_initiate_finish_NotFinished(work) ==
    [finished |-> FALSE, work |-> FetchAdd(work), call |-> "Finish"]

\* Variant: the Finish is started without a unit of work of its own.
client_initiate_finish_NoWorkStarted(work) ==
    [finished |-> TRUE, work |-> work, call |-> "Finish"]

client_initiate_finish(work) ==
    [finished |-> TRUE, work |-> FetchAdd(work), call |-> "Finish"]

\* initiate(): the call the tag is handed to, the N of self<N>, and the flags it sets.
Initiated(call, sub, wd, fin) ==
    [call |-> call, sub |-> sub, writes_done |-> wd, finished |-> fin]

ClientUnaryRequest_initiate == Initiated("Finish", 0, FALSE, FALSE)

ClientStreamingRequest_initiate == Initiated("StartCall", 0, FALSE, FALSE)

ReadInitialMetadata_initiate == Initiated("ReadInitialMetadata", 0, FALSE, FALSE)

Read_initiate == Initiated("Read", 0, FALSE, FALSE)

WriteClientStreaming_initiate(last) ==
    IF last THEN Initiated("Write", 1, TRUE, FALSE) ELSE Initiated("Write", 0, FALSE, FALSE)

\* Variant: the last-message flag does not mark the writes done.
ClientWriteBidiStreaming_initiate_NoWritesDone(last) == Initiated("Write", 0, FALSE, FALSE)

ClientWriteBidiStreaming_initiate(last) == Initiated("Write", 0, last, FALSE)

ClientWritesDone_initiate == Initiated("WritesDone", 0, FALSE, FALSE)

\* Variant: finish() half-closes the call whether or not the writes are done.
ClientFinish_initiate_AlwaysWritesDone(writes_done) ==
    Initiated("WritesDone", 0, FALSE, FALSE)

\* Variant: a Finish started directly does not mark the call finished.
ClientFinish_initiate_NotFinished(writes_done) ==
    IF writes_done
    THEN Initiated("Finish", 1, FALSE, FALSE)
    ELSE Initiated("WritesDone", 0, FALSE, FALSE)

ClientFinish_initiate(writes_done) ==
    IF writes_done
    THEN Initiated("Finish", 1, FALSE, TRUE)
    ELSE Initiated("WritesDone", 0, FALSE, FALSE)

\* A call without a writing side has nothing to half-close.
is_writes_done(type, flag) == type = "server_streaming" \/ flag

initiate(type, verb, last, writes_done) ==
    CASE verb = "request" -> ClientUnaryRequest_initiate
      [] verb = "start" -> ClientStreamingRequest_initiate
      [] verb = "read_initial_metadata" -> ReadInitialMetadata_initiate
      [] verb = "read" -> Read_initiate
      [] verb = "write" /\ type = "client_streaming" -> WriteClientStreaming_initiate(last)
      [] verb = "write" /\ type # "client_streaming" -> ClientWriteBidiStreaming_initiate(last)
      [] verb = "writes_done" -> ClientWritesDone_initiate
      [] verb = "finish" -> ClientFinish_initiate(is_writes_done(type, writes_done))

\* done(): either the handler is given a value, or a Finish is initiated on self<N>.
OnDone(value) == [finish |-> FALSE, sub |-> 0, value |-> value, writes_done |-> FALSE]

InitiateFinish(sub) == [finish |-> TRUE, sub |-> sub, value |-> "none", writes_done |-> FALSE]

Bool(ok) == IF ok THEN "true" ELSE "false"

\* Variant: a unary event that is not ok starts a Finish of its own.
ClientUnaryRequest_done_FinishOnError(ok) ==
    IF ok THEN OnDone("status") ELSE InitiateFinish(0)

ClientUnaryRequest_done(ok) == OnDone("status")

\* Variant: the call is handed to the handler whatever the flag is.
ClientStreamingRequest_done_NoFinish(ok) == OnDone("rpc")

ClientStreamingRequest_done(ok) == IF ok THEN OnDone("rpc") ELSE InitiateFinish(0)

\* Variant: after the automatic Finish the handler is given rpc.ok().
ReadInitialMetadata_done_RpcOk(sub, ok) ==
    IF sub = 0
    THEN (IF ok THEN OnDone("true") ELSE InitiateFinish(1))
    ELSE OnDone("rpc_ok")

ReadInitialMetadata_done(sub, ok) ==
    IF sub = 0
    THEN (IF ok THEN OnDone("true") ELSE InitiateFinish(1))
    ELSE OnDone("false")

\* Variant: the server-streaming read passes the flag on, as the bidirectional one.
ReadServerStreaming_done_NoFinish(sub, ok) == OnDone(Bool(ok))

ReadServerStreaming_done(sub, ok) ==
    IF sub = 0
    THEN (IF ok THEN OnDone("true") ELSE InitiateFinish(1))
    ELSE OnDone("false")

\* Variant: a write flagged last whose event is ok completes without a Finish.
WriteClientStreaming_done_LastOkCompletes(sub, ok) ==
    CASE sub \in {0, 1} -> (IF ok THEN OnDone("true") ELSE InitiateFinish(2))
      [] OTHER -> OnDone("rpc_ok")

WriteClientStreaming_done(sub, ok) ==
    CASE sub = 0 -> (IF ok THEN OnDone("true") ELSE InitiateFinish(2))
      [] sub = 1 -> InitiateFinish(2)
      [] OTHER -> OnDone("rpc_ok")

\* Variant: a WritesDone that was not ok ends the finish without a Finish.
ClientFinish_done_NoFinishOnError(sub, ok) ==
    IF sub = 0 /\ ok THEN InitiateFinish(1) ELSE OnDone("rpc_ok")

ClientFinish_done(sub, ok) == IF sub = 0 THEN InitiateFinish(1) ELSE OnDone("rpc_ok")

ClientReadBidiStreaming_done(ok) == OnDone(Bool(ok))

ClientWriteBidiStreaming_done(ok) == OnDone(Bool(ok))

\* Variant: only a WritesDone event that is ok marks the writes done.
ClientWritesDone_done_OnlyWhenOk(ok) ==
    [finish |-> FALSE, sub |-> 0, value |-> Bool(ok), writes_done |-> ok]

ClientWritesDone_done(ok) ==
    [finish |-> FALSE, sub |-> 0, value |-> Bool(ok), writes_done |-> TRUE]

done(type, verb, sub, ok) ==
    CASE verb = "request" -> ClientUnaryRequest_done(ok)
      [] verb = "start" -> ClientStreamingRequest_done(ok)
      [] verb = "read_initial_metadata" -> ReadInitialMetadata_done(sub, ok)
      [] verb = "read" /\ type = "server_streaming" -> ReadServerStreaming_done(sub, ok)
      [] verb = "read" /\ type # "server_streaming" -> ClientReadBidiStreaming_done(ok)
      [] verb = "write" /\ type = "client_streaming" -> WriteClientStreaming_done(sub, ok)
      [] verb = "write" /\ type # "client_streaming" -> ClientWriteBidiStreaming_done(ok)
      [] verb = "writes_done" -> ClientWritesDone_done(ok)
      [] verb = "finish" -> ClientFinish_done(sub, ok)

\* What the handler sees of the value done() passes on: an RPC object and rpc.ok()
\* are seen through the status.
Resolve(value, status) ==
    CASE value \in {"rpc", "rpc_ok"} -> Bool(status = "OK")
      [] value = "status" -> status
      [] OTHER -> value

\* The RPC object is constructed.
CreateRpc(type) ==
    /\ Alive /\ rpc_type = "none"
    /\ rpc_type' = type
    /\ UNCHANGED <<outstanding_work, stopped, check_remote_work, local_work_queue, remoteQ,
                   alarm_events, cq_events, registered, ctxFlags, lpc, loopLocals,
                   threadVars, nextOp, origin, invoked, runHist, wpair, blocked_stop,
                   rpc_writes_done, rpc_finished, rpc_status, status_known, response,
                   rpcOpVars, try_cancel, start_failed, emitted, finish_tags>>

\* The application's use of the call: one request on a unary call; on a streaming
\* call start first, then one step at a time, or one reading and one writing step
\* at a time on a bidirectional call; nothing written after writes done; finish
\* while no other step is in progress.
Outstanding(o) == op_verb[o] # "none" /\ handler_calls[o] = 0

Side(verb) == IF verb \in {"read_initial_metadata", "read"} THEN "read" ELSE "write"

MayInitiate(verb) ==
    /\ verb \in VerbsOf(rpc_type)
    /\ next_rpc_op <= MaxRpcOps
    /\ IF verb \in {"request", "start"}
       THEN \A o \in RpcOps : op_verb[o] = "none"
       ELSE /\ \E o \in RpcOps : op_verb[o] = "start" /\ handler_calls[o] = 1
            /\ \A o \in RpcOps :
                  Outstanding(o) => (rpc_type = "bidi" /\ Side(op_verb[o]) # Side(verb))
    /\ verb \in {"write", "writes_done"} => ~rpc_writes_done
    /\ verb = "finish" => \A o \in RpcOps : ~Outstanding(o)
    /\ \A o \in RpcOps : Outstanding(o) => op_verb[o] # "finish"

\* gRPC's own rule for the use of a call: after the start, one reading and one
\* writing step at a time on every streaming call, finish while no other step is
\* in progress.
MayInitiateAnySide(verb) ==
    /\ verb \in VerbsOf(rpc_type) \ {"request", "start"}
    /\ next_rpc_op <= MaxRpcOps
    /\ \E o \in RpcOps : op_verb[o] = "start" /\ handler_calls[o] = 1
    /\ \A o \in RpcOps : Outstanding(o) => Side(op_verb[o]) # Side(verb)
    /\ verb \in {"write", "writes_done"} => ~rpc_writes_done
    /\ verb = "finish" => \A o \in RpcOps : ~Outstanding(o)
    /\ \A o \in RpcOps : Outstanding(o) => op_verb[o] # "finish"

\* A step on a call that is already finished completes at once with the outcome that
\* is known, without a tag.
short_circuits(verb, finished) == finished /\ verb \notin {"request", "start"}

\* A step is started: work_started(), then the sender's initiate().
StartStep(verb, last) ==
    LET o == next_rpc_op
        init == initiate(rpc_type, verb, last, rpc_writes_done)
    IN  /\ Alive
        /\ last => verb = "write"
        /\ op_verb' = [op_verb EXCEPT ![o] = verb]
        /\ op_last' = [op_last EXCEPT ![o] = last]
        /\ next_rpc_op' = o + 1
        /\ IF short_circuits(verb, rpc_finished)
           THEN /\ handler_calls' = [handler_calls EXCEPT ![o] = 1]
                /\ op_result' = [op_result EXCEPT ![o] =
                                    IF verb = "finish" THEN Resolve("rpc_ok", rpc_status)
                                    ELSE "false"]
                /\ UNCHANGED <<outstanding_work, registered, op_call, op_sub, op_tags,
                               rpc_writes_done, rpc_finished, finish_tags>>
           ELSE /\ outstanding_work' = FetchAdd(outstanding_work)
                /\ registered' = registered \cup {o}
                /\ op_call' = [op_call EXCEPT ![o] = init.call]
                /\ op_sub' = [op_sub EXCEPT ![o] = init.sub]
                /\ op_tags' = [op_tags EXCEPT ![o] = 1]
                /\ rpc_writes_done' = (rpc_writes_done \/ init.writes_done)
                /\ rpc_finished' = (rpc_finished \/ init.finished)
                /\ finish_tags' = IF init.call = "Finish" THEN finish_tags + 1 ELSE finish_tags
                /\ UNCHANGED <<handler_calls, op_result>>
        /\ UNCHANGED <<stopped, check_remote_work, local_work_queue, remoteQ, alarm_events,
                       cq_events, ctxFlags, lpc, loopLocals, threadVars, nextOp, origin,
                       invoked, runHist, wpair, blocked_stop, rpc_type, rpc_status,
                       status_known, response, op_first_ok, try_cancel, start_failed,
                       emitted>>

\* The application starts a step that its use of the call allows.
RpcInitiate(verb, last) == MayInitiate(verb) /\ StartStep(verb, last)

\* rpc.cancel() and the senders' StopFunction: ClientContext::TryCancel().
\* Variant: cancelling takes the pending tags back and returns their units of work.
RpcCancel_Unlinks ==
    /\ Alive /\ rpc_type # "none" /\ ~try_cancel
    /\ try_cancel' = TRUE
    /\ registered' = {}
    /\ outstanding_work' = outstanding_work - Cardinality(registered)
    /\ UNCHANGED <<stopped, check_remote_work, local_work_queue, remoteQ,
                   alarm_events, cq_events, ctxFlags, lpc, loopLocals,
                   threadVars, nextOp, origin, invoked, runHist, wpair, blocked_stop,
                   rpcFlags, rpcOpVars, start_failed, emitted, finish_tags>>

RpcCancel ==
    /\ Alive /\ rpc_type # "none" /\ ~try_cancel
    /\ try_cancel' = TRUE
    /\ UNCHANGED <<outstanding_work, stopped, check_remote_work, local_work_queue, remoteQ,
                   alarm_events, cq_events, registered, ctxFlags, lpc, loopLocals,
                   threadVars, nextOp, origin, invoked, runHist, wpair, blocked_stop,
                   rpcFlags, rpcOpVars, start_failed, emitted, finish_tags>>

\* asio::cancellation_type, as the set of its bits; none is the empty set.
CancellationBits == {"terminal", "partial", "total"}

CancellationTypes == SUBSET CancellationBits

\* Variant: every bit of the type requests the cancellation.
ClientContextCancellationFunction_AnyBit(type) == type \cap CancellationBits # {}

\* ClientContextCancellationFunction::operator()(asio::cancellation_type): whether
\* TryCancel() is called.
ClientContextCancellationFunction(type) == type \cap {"terminal", "partial"} # {}

\* A signal is emitted on the cancellation slot bound to the handler of a pending
\* step: the slot's handler is the sender's StopFunction.
EmitCancellation(type) ==
    /\ Alive /\ rpc_type # "none" /\ Len(emitted) < MaxSignals
    /\ \E o \in RpcOps : Outstanding(o)
    /\ emitted' = Append(emitted, type)
    /\ try_cancel' = (try_cancel \/ ClientContextCancellationFunction(type))
    /\ UNCHANGED <<outstanding_work, stopped, check_remote_work, local_work_queue, remoteQ,
                   alarm_events, cq_events, registered, ctxFlags, lpc, loopLocals,
                   threadVars, nextOp, origin, invoked, runHist, wpair, blocked_stop,
                   rpcFlags, rpcOpVars, start_failed, finish_tags>>

\* The transport produces the event of a pending tag.  The event of a client-side
\* Finish comes with ok = true; the unary done() ignores the flag, so both values are
\* delivered there.
DeliversOk(o) ==
    IF op_call[o] = "Finish" /\ op_verb[o] # "request" THEN {TRUE} ELSE BOOLEAN

ProduceEvent(o, ok) ==
    /\ o \in registered /\ cq_state = "open"
    /\ registered' = registered \ {o}
    /\ cq_events' = cq_events \cup {[tag |-> o, ok |-> ok]}
    /\ start_failed' = (start_failed \/ (op_call[o] = "StartCall" /\ ~ok))
    /\ op_first_ok' = [op_first_ok EXCEPT ![o] = IF @ = "none" THEN Bool(ok) ELSE @]
    /\ UNCHANGED <<outstanding_work, stopped, check_remote_work, local_work_queue, remoteQ,
                   alarm_events, ctxFlags, lpc, loopLocals, threadVars, nextOp, origin,
                   invoked, runHist, wpair, blocked_stop, rpcFlags, op_verb, op_sub,
                   op_call, op_last, op_tags, handler_calls, op_result, next_rpc_op,
                   try_cancel, emitted, finish_tags>>

RpcDeliver(o, ok) == ok \in DeliversOk(o) /\ ProduceEvent(o, ok)

\* The status a Finish can end with: a call whose start failed does not end OK, and
\* a call for which TryCancel() was called may end CANCELLED.
FinishStatuses ==
    (IF start_failed THEN {"FAILED"} ELSE {"OK", "FAILED"})
        \cup (IF try_cancel THEN {"CANCELLED"} ELSE {})

\* The server of the cancellation tests: it accepts the call and then never answers.
\* The start completes; a message can be taken for sending without the peer; a
\* read, the initial metadata and the Finish stay pending until the call is
\* cancelled and then end as those of a cancelled call.
SilentPeer(o, ok) ==
    CASE op_call[o] = "StartCall" -> ok
      [] op_call[o] \in {"Write", "WritesDone"} -> ok \/ try_cancel
      [] op_call[o] = "Finish" -> try_cancel
      [] OTHER -> try_cancel /\ ~ok

SilentPeerStatus(o) == IF op_call[o] = "Finish" THEN "CANCELLED" ELSE rpc_status

ServerResponse(request) == IF request = TestRequest THEN TestResponse ELSE 0

\* handle_next_completion_queue_event for the tag of a step: the sender's done(),
\* then work_finished() for the event's unit of work.
WaitRpcTag(e, st) ==
    LET o == e.tag
        d == done(rpc_type, op_verb[o], op_sub[o], e.ok)
        finish_event == op_call[o] = "Finish"
        cif == client_initiate_finish(outstanding_work)
        old == IF d.finish THEN cif.work ELSE outstanding_work
        calls_stop == WorkFinishedStops(old)
        marks == calls_stop /\ StopProceeds(stopped, TRUE) /\ try_mark_active(remote_active)
    IN  /\ lpc = "wait" /\ e \in cq_events
        /\ st \in (IF finish_event THEN FinishStatuses ELSE {rpc_status})
        /\ cq_events' = cq_events \ {e}
        /\ rpc_status' = st
        /\ status_known' = (status_known \/ finish_event)
        /\ response' = IF finish_event /\ op_verb[o] = "request" /\ e.ok /\ st = "OK"
                       THEN ServerResponse(TestRequest)
                       ELSE response
        /\ IF d.finish
           THEN /\ rpc_finished' = cif.finished
                /\ registered' = registered \cup {o}
                /\ op_call' = [op_call EXCEPT ![o] = cif.call]
                /\ op_sub' = [op_sub EXCEPT ![o] = d.sub]
                /\ op_tags' = [op_tags EXCEPT ![o] = @ + 1]
                /\ finish_tags' = finish_tags + 1
                /\ UNCHANGED <<handler_calls, op_result, rpc_writes_done>>
           ELSE /\ handler_calls' = [handler_calls EXCEPT ![o] = @ + 1]
                /\ op_result' = [op_result EXCEPT ![o] = Resolve(d.value, st)]
                /\ op_call' = [op_call EXCEPT ![o] = "none"]
                /\ rpc_writes_done' = (rpc_writes_done \/ d.writes_done)
                /\ UNCHANGED <<rpc_finished, registered, op_sub, op_tags, finish_tags>>
        /\ outstanding_work' = FetchSub(old)
        /\ stopped' = (stopped \/ calls_stop)
        /\ remote_active' = (remote_active \/ marks)
        /\ alarm_events' = IF marks THEN alarm_events + 1 ELSE alarm_events
        /\ wpair' = 0
        /\ run_ev' = TRUE
        /\ EndIteration(TRUE)
        /\ UNCHANGED <<shutdown, check_remote_work, local_work_queue, remote_head, cq_state,
                       memory_resources, kind, pass, processed_local, threadVars, nextOp,
                       origin, invoked, run_cb, entry_pair, blocked_stop, rpc_type, op_verb,
                       op_last, op_first_ok, next_rpc_op, try_cancel, start_failed,
                       emitted>>

\* ------------------------------------------------------------- ~GrpcContext
\* Variant: the shutdown flag is stored together with the stop.
DtorStop_StoresShutdown ==
    /\ lpc = "idle" /\ \A t \in Threads : rpc[t] = "idle"
    /\ LET marks == StopProceeds(stopped, FALSE) /\ try_mark_active(remote_active)
       IN  /\ stopped' = TRUE
           /\ remote_active' = (remote_active \/ marks)
           /\ alarm_events' = IF marks THEN alarm_events + 1 ELSE alarm_events
    /\ shutdown' = TRUE
    /\ lpc' = "d_shutdown_flag"
    /\ UNCHANGED <<outstanding_work, check_remote_work, local_work_queue, remote_head,
                   cq_events, registered, cq_state, memory_resources, loopLocals,
                   threadVars, nextOp, origin, invoked, runHist, wpair, blocked_stop,
                   rpcVars>>

\* The destructor runs on the loop thread's side while no other call is in progress.
\* Its five statements, in order.
DtorStop ==
    /\ lpc = "idle" /\ \A t \in Threads : rpc[t] = "idle"
    /\ LET marks == StopProceeds(stopped, FALSE) /\ try_mark_active(remote_active)
       IN  /\ stopped' = TRUE
           /\ remote_active' = (remote_active \/ marks)
           /\ alarm_events' = IF marks THEN alarm_events + 1 ELSE alarm_events
    /\ lpc' = "d_shutdown_flag"
    /\ UNCHANGED <<outstanding_work, check_remote_work, local_work_queue, remote_head,
                   cq_events, registered, ctxFlags, loopLocals, threadVars, nextOp, origin,
                   invoked, runHist, wpair, blocked_stop, rpcVars>>

\* Variant: the store to the shutdown flag is missing.
DtorSetShutdown_NoStore ==
    /\ lpc = "d_shutdown_flag"
    /\ lpc' = "d_cq_shutdown"
    /\ UNCHANGED <<outstanding_work, stopped, check_remote_work, local_work_queue, remoteQ,
                   alarm_events, cq_events, registered, ctxFlags, loopLocals, threadVars,
                   nextOp, origin, invoked, runHist, wpair, blocked_stop, rpcVars>>

DtorSetShutdown ==
    /\ lpc = "d_shutdown_flag"
    /\ shutdown' = TRUE
    /\ lpc' = "d_cq_shutdown"
    /\ UNCHANGED <<outstanding_work, stopped, check_remote_work, local_work_queue, remoteQ,
                   alarm_events, cq_events, registered, cq_state, memory_resources,
                   loopLocals, threadVars, nextOp, origin, invoked, runHist, wpair,
                   blocked_stop, rpcVars>>

DtorShutdownCompletionQueue ==
    /\ lpc = "d_cq_shutdown"
    /\ cq_state' = "shutdown"
    /\ lpc' = "d_drain"
    /\ UNCHANGED <<outstanding_work, stopped, check_remote_work, local_work_queue, remoteQ,
                   alarm_events, cq_events, registered, shutdown, memory_resources,
                   loopLocals, threadVars, nextOp, origin, invoked, runHist, wpair,
                   blocked_stop, rpcVars>>

\* drain_completion_queue: every event still to come out of the completion queue is
\* taken and discarded; no handler is invoked.
drain_invokes == {}

DtorDrain ==
    /\ lpc = "d_drain"
    /\ cq_events' = {}
    /\ alarm_events' = 0
    /\ registered' = {}
    /\ cq_state' = "drained"
    /\ invoked' = [o \in Ops |-> IF o \in drain_invokes THEN invoked[o] + 1 ELSE invoked[o]]
    /\ lpc' = "d_release"
    /\ UNCHANGED <<outstanding_work, stopped, check_remote_work, local_work_queue, remoteQ,
                   shutdown, memory_resources, loopLocals, threadVars, nextOp, origin,
                   runHist, wpair, blocked_stop, rpcVars>>

DtorDeleteResources ==
    /\ lpc = "d_release"
    /\ memory_resources' = 0
    /\ lpc' = "destroyed"
    /\ UNCHANGED <<outstanding_work, stopped, check_remote_work, local_work_queue, remoteQ,
                   alarm_events, cq_events, registered, shutdown, cq_state, loopLocals,
                   threadVars, nextOp, origin, invoked, runHist, wpair, blocked_stop, rpcVars>>

\* ------------------------------------------------------------- specifications
\* Every call of the model together.
ThreadStep(t) ==
    \/ Post(t, MaxOps)
    \/ Enqueue(t)
    \/ TriggerAlarm(t)
    \/ CallStop(t)
    \/ StopFromWorkFinished(t)
    \/ TryMarkActive(t)
    \/ WorkStarted(t)
    \/ WorkFinished(t)

LoopStep ==
    \/ LoopConditionFalse
    \/ LoopTop
    \/ \E eff \in Effects : InvokeLocal(eff, MaxOps)
    \/ AfterLocal
    \/ WaitWake
    \/ \E e \in cq_events, eff \in Effects : WaitTag(e, eff, MaxOps)
    \/ WaitTimeout
    \/ RunReturn

Destructor ==
    \/ DtorStop
    \/ DtorSetShutdown
    \/ DtorShutdownCompletionQueue
    \/ DtorDrain
    \/ DtorDeleteResources

Next ==
    \/ \E t \in Threads : ThreadStep(t)
    \/ \E o \in Ops, ok \in BOOLEAN : CompleteTag(o, ok)
    \/ InitiateStep(MaxOps)
    \/ \E k \in Kinds : RunEnter(k)
    \/ LoopStep
    \/ Destructor

Spec == Init /\ [][Next]_vars

\* The queues alone: threads post and stop, handlers post and stop, run() and poll().
QueueEffects == {"none", "post", "post2", "stop"}

QueueThreadStep(t) ==
    \/ Post(t, MaxOps)
    \/ Enqueue(t)
    \/ TriggerAlarm(t)
    \/ CallStop(t)
    \/ TryMarkActive(t)

QueueLoopStep ==
    \/ LoopTop
    \/ \E eff \in QueueEffects : InvokeLocal(eff, MaxOps)
    \/ AfterLocal
    \/ WaitWake
    \/ WaitTimeout
    \/ RunReturn

NextQueue ==
    \/ \E t \in Threads : QueueThreadStep(t)
    \/ \E k \in {"run", "poll"} : RunEnter(k)
    \/ QueueLoopStep

SpecQueue == Init /\ [][NextQueue]_vars

\* The loop thread keeps executing the call it is in, and every thread finishes the
\* call it has begun; nobody is obliged to begin a call.
SpecQueueLive ==
    /\ SpecQueue
    /\ WF_vars(QueueLoopStep)
    /\ \A t \in Threads : WF_vars(Enqueue(t) \/ TriggerAlarm(t) \/ TryMarkActive(t))

\* The completion queue: every run*/poll* call, steps registered with the completion
\* source, handlers posted by threads, stop(), and the destructor.
CqThreadStep(t) ==
    \/ Post(t, MaxCqOps)
    \/ Enqueue(t)
    \/ TriggerAlarm(t)
    \/ CallStop(t)
    \/ TryMarkActive(t)

CqLoopStep ==
    \/ LoopConditionFalse
    \/ LoopTop
    \/ \E eff \in Effects : InvokeLocal(eff, MaxCqOps)
    \/ AfterLocal
    \/ WaitWake
    \/ \E e \in cq_events, eff \in Effects : WaitTag(e, eff, MaxCqOps)
    \/ WaitTimeout
    \/ RunReturn

NextCq ==
    \/ \E t \in Threads : CqThreadStep(t)
    \/ \E o \in Ops, ok \in BOOLEAN : CompleteTag(o, ok)
    \/ InitiateStep(MaxCqOps)
    \/ \E k \in Kinds : RunEnter(k)
    \/ CqLoopStep
    \/ Destructor

SpecCq == Init /\ [][NextCq]_vars

\* As above, with the loop thread executing on (a deadline that lies in the future is
\* reached after finitely many steps) and every thread finishing the call it has
\* begun; nobody is obliged to begin a call, and the transport need not answer.
SpecCqLive ==
    /\ SpecCq
    /\ WF_vars(CqLoopStep)
    /\ \A t \in Threads : WF_vars(Enqueue(t) \/ TriggerAlarm(t) \/ TryMarkActive(t))

\* Work counting: work_started() and work_finished() from any thread, unmatched ones
\* included, next to posted handlers, stop() and run().
WorkThreadStep(t) ==
    \/ Post(t, MaxWorkOps)
    \/ Enqueue(t)
    \/ TriggerAlarm(t)
    \/ CallStop(t)
    \/ StopFromWorkFinished(t)
    \/ TryMarkActive(t)
    \/ WorkStarted(t)
    \/ WorkFinished(t)

WorkLoopStep ==
    \/ LoopTop
    \/ \E eff \in QueueEffects : InvokeLocal(eff, MaxWorkOps)
    \/ AfterLocal
    \/ WaitWake
    \/ WaitTimeout
    \/ RunReturn

NextWork ==
    \/ \E t \in Threads : WorkThreadStep(t)
    \/ RunEnter("run")
    \/ WorkLoopStep

SpecWork == Init /\ [][NextWork]_vars

\* As above, with the loop thread executing on and every thread finishing the call
\* it has begun; nobody is obliged to begin a call.
SpecWorkLive ==
    /\ SpecWork
    /\ WF_vars(WorkLoopStep)
    /\ \A t \in Threads :
          WF_vars(Enqueue(t) \/ TriggerAlarm(t) \/ StopFromWorkFinished(t) \/ TryMarkActive(t))

\* Handlers that throw: a thread posts handlers, handlers post, initiate steps, stop
\* or throw, under run() and poll().
ThrowThreadStep ==
    \/ Post(1, MaxThrowOps)
    \/ Enqueue(1)
    \/ TriggerAlarm(1)

ThrowLoopStep ==
    \/ LoopTop
    \/ \E eff \in {"none", "post", "initiate"} : InvokeLocal(eff, MaxThrowOps)
    \/ InvokeLocalThrows
    \/ AfterLocal
    \/ WaitWake
    \/ \E e \in cq_events : WaitTag(e, "none", MaxThrowOps)
    \/ \E e \in cq_events : WaitTagThrows(e)
    \/ WaitTimeout
    \/ RunReturn
    \/ RunRethrow

NextThrow ==
    \/ ThrowThreadStep
    \/ \E o \in Ops : CompleteTag(o, TRUE)
    \/ \E k \in {"run", "poll"} : RunEnter(k)
    \/ ThrowLoopStep

SpecThrow == Init /\ [][NextThrow]_vars

SpecThrowLive == SpecThrow /\ WF_vars(ThrowLoopStep) /\ WF_vars(Enqueue(1) \/ TriggerAlarm(1))

\* The life cycle of the context: stop(), reset(), work counting and posted handlers
\* from any thread, run() and poll() on the loop thread, and the destructor.
LifeThreadStep(t) ==
    \/ Post(t, MaxLifeOps)
    \/ Enqueue(t)
    \/ TriggerAlarm(t)
    \/ CallStop(t)
    \/ StopFromWorkFinished(t)
    \/ TryMarkActive(t)
    \/ WorkStarted(t)
    \/ WorkFinished(t)
    \/ Reset(t)

LifeLoopStep ==
    \/ LoopTop
    \/ \E eff \in {"none", "stop"} : InvokeLocal(eff, MaxLifeOps)
    \/ AfterLocal
    \/ WaitWake
    \/ WaitTimeout
    \/ RunReturn

NextLife ==
    \/ \E t \in Threads : LifeThreadStep(t)
    \/ \E k \in {"run", "poll"} : RunEnter(k)
    \/ LifeLoopStep
    \/ Destructor

SpecLife == Init /\ [][NextLife]_vars

\* Operation objects that are used again: handlers post, initiate steps, or put their
\* own object back into the local queue or with the completion source.
ReuseEffects == {"none", "post", "initiate", "repost", "reinitiate"}

ReuseThreadStep ==
    \/ Post(1, MaxReuseOps)
    \/ Enqueue(1)
    \/ TriggerAlarm(1)

ReuseLoopStep ==
    \/ LoopTop
    \/ \E eff \in ReuseEffects : InvokeLocal(eff, MaxReuseOps)
    \/ AfterLocal
    \/ WaitWake
    \/ \E e \in cq_events, eff \in ReuseEffects : WaitTag(e, eff, MaxReuseOps)
    \/ WaitTimeout
    \/ RunReturn

NextReuse ==
    \/ ReuseThreadStep
    \/ \E o \in Ops, ok \in BOOLEAN : CompleteTag(o, ok)
    \/ InitiateStep(MaxReuseOps)
    \/ \E k \in {"run", "poll"} : RunEnter(k)
    \/ ReuseLoopStep

SpecReuse == Init /\ [][NextReuse]_vars

\* Notify-when-done: callbacks registered for calls outside of run() and from
\* handlers, next to other steps; the transport reports a call done at any time or
\* never; run(), poll() and the destructor.
NotifyEffects == {"none", "notify", "stop"}

NotifyLoopStep ==
    \/ LoopTop
    \/ AfterLocal
    \/ \E e \in cq_events, eff \in NotifyEffects : WaitTag(e, eff, MaxNotifyOps)
    \/ WaitTimeout
    \/ RunReturn

NextNotify ==
    \/ NotifyWhenDone(MaxNotifyOps)
    \/ InitiateStep(MaxNotifyOps)
    \/ \E o \in Ops, ok \in BOOLEAN : CompleteTag(o, ok)
    \/ \E k \in {"run", "poll"} : RunEnter(k)
    \/ NotifyLoopStep
    \/ Destructor

SpecNotify == Init /\ [][NextNotify]_vars

\* starts steps and cancels, the transport completes tags.
RpcLoopStep ==
    \/ LoopTop
    \/ AfterLocal
    \/ \E e \in cq_events, st \in {"OK", "FAILED"} : WaitRpcTag(e, st)
    \/ RunReturn

NextRpc ==
    \/ \E type \in RpcTypes : CreateRpc(type)
    \/ \E verb \in VerbsOf(rpc_type), last \in BOOLEAN : RpcInitiate(verb, last)
    \/ RpcCancel
    \/ \E o \in RpcOps, ok \in BOOLEAN : RpcDeliver(o, ok)
    \/ RunEnter("run")
    \/ RpcLoopStep

SpecRpc == Init /\ [][NextRpc]_vars

\* A started streaming call whose peer never answers, on a context the application
\* drives with run(): steps are started and the call is cancelled at any time.
CancelLoopStep ==
    \/ LoopTop
    \/ AfterLocal
    \/ \E e \in cq_events : WaitRpcTag(e, SilentPeerStatus(e.tag))
    \/ RunReturn

CancelDeliver == \E o \in RpcOps, ok \in BOOLEAN : SilentPeer(o, ok) /\ RpcDeliver(o, ok)

NextCancel ==
    \/ \E type \in RpcTypes \ {"unary"} : CreateRpc(type)
    \/ \E verb \in VerbsOf(rpc_type), last \in BOOLEAN : RpcInitiate(verb, last)
    \/ RpcCancel
    \/ CancelDeliver
    \/ RunEnter("run")
    \/ CancelLoopStep

SpecCancel == Init /\ [][NextCancel]_vars

\* The steps of a call under every order of their events and with either ok value
\* for every event, that of a Finish included.
NextFinish ==
    \/ \E type \in RpcTypes : CreateRpc(type)
    \/ \E verb \in {"request", "start"} : MayInitiate(verb) /\ StartStep(verb, FALSE)
    \/ \E verb \in VerbsOf(rpc_type), last \in BOOLEAN :
          MayInitiateAnySide(verb) /\ StartStep(verb, last)
    \/ \E o \in RpcOps, ok \in BOOLEAN : op_tags[o] < MaxStepTags /\ ProduceEvent(o, ok)
    \/ \E o \in RpcOps : op_tags[o] = MaxStepTags /\ ProduceEvent(o, TRUE)
    \/ RunEnter("run")
    \/ RpcLoopStep

SpecFinish == Init /\ [][NextFinish]_vars

\* The steps of a call with a cancellation slot bound to their handlers.
SlotLoopStep ==
    \/ LoopTop
    \/ AfterLocal
    \/ \E e \in cq_events, st \in {"OK", "FAILED", "CANCELLED"} : WaitRpcTag(e, st)
    \/ RunReturn

NextSlot ==
    \/ \E type \in RpcTypes : CreateRpc(type)
    \/ \E verb \in VerbsOf(rpc_type), last \in BOOLEAN : RpcInitiate(verb, last)
    \/ \E type \in CancellationTypes : EmitCancellation(type)
    \/ \E o \in RpcOps, ok \in BOOLEAN : RpcDeliver(o, ok)
    \/ RunEnter("run")
    \/ SlotLoopStep

SpecSlot == Init /\ [][NextSlot]_vars

\* The application keeps run() going, the loop thread executes on, and the transport
\* hands back every tag it can; nobody is obliged to start a step or to cancel.
SpecCancelLive ==
    /\ SpecCancel
    /\ WF_vars(RunEnter("run"))
    /\ WF_vars(CancelLoopStep)
    /\ WF_vars(CancelDeliver)

\* ------------------------------------------------------------- properties
InQueue == pass \o local_work_queue

IsPrefix(p, q) == Len(p) <= Len(q) /\ SubSeq(q, 1, Len(p)) = p

LoopRunning == lpc \in {"top", "invoke", "wait"} /\ ~stopped

Runs(o) == invoked'[o] > invoked[o]

\* C4: every operation pushed locally (a handler posting from inside a callback while
\* the loop drains) is invoked at most once, only after its push has completed (it
\* was linked in the queue before the step that invokes it), and, while the loop keeps
\* running, it is invoked.
C4_Step ==
    \A o \in Ops :
        /\ origin'[o] = LocalOrigin => invoked'[o] <= 1
        /\ (Runs(o) /\ origin'[o] = LocalOrigin) =>
               (origin[o] = LocalOrigin /\ o \in Range(InQueue))

C4_LocalPushExactlyOnce ==
    /\ [][C4_Step]_vars
    /\ \A o \in Ops :
          (origin[o] = LocalOrigin /\ invoked[o] = 0 /\ LoopRunning)
              ~> (invoked[o] = 1 \/ ~LoopRunning)

C4_Witness ==
    \E o \in Ops : origin[o] = LocalOrigin /\ invoked[o] = 1 /\ lpc = "invoke"

\* C5: operations pushed to the remote queue by several threads are each invoked at
\* most once, in the order their own thread pushed them, and under a running loop
\* each of them is invoked.
C5_Step ==
    \A o \in Ops :
        /\ origin'[o][1] = "thread" => invoked'[o] <= 1
        /\ (Runs(o) /\ origin[o][1] = "thread") =>
               \A a \in 1..(o - 1) : origin[a] = origin[o] => invoked[a] >= 1

C5_RemoteFifoPerProducer ==
    /\ [][C5_Step]_vars
    /\ \A o \in Ops :
          (origin[o][1] = "thread" /\ invoked[o] = 0 /\ o \in Range(remote_head)
             /\ LoopRunning)
              ~> (invoked[o] = 1 \/ ~LoopRunning)

C5_Witness ==
    \E a, b \in Ops :
        /\ a < b /\ origin[a][1] = "thread" /\ origin[b] = origin[a]
        /\ invoked[a] = 1 /\ invoked[b] = 1
        /\ \E c \in Ops : origin[c][1] = "thread" /\ origin[c] # origin[a] /\ invoked[c] = 1

\* C6: the queued operations run in the order they were queued: the operation a step
\* invokes is the first of the queue, operations pushed meanwhile (from inside the
\* callback) and the remote operations moved over go behind everything already
\* queued, and locally pushed operations run in the order of their pushes.
C6_Step ==
    /\ \A o \in Ops :
          (Runs(o) /\ o \in Range(InQueue)) =>
              (o = Head(InQueue) /\ IsPrefix(Tail(InQueue), InQueue'))
    /\ (\A o \in Range(InQueue) : ~Runs(o)) => IsPrefix(InQueue, InQueue')
    /\ \A o \in Ops :
          (Runs(o) /\ origin[o] = LocalOrigin) =>
              \A a \in 1..(o - 1) : origin[a] = LocalOrigin => invoked[a] >= 1

C6_LocalFifo == [][C6_Step]_vars

C6_Witness ==
    /\ lpc = "invoke" /\ Len(pass) >= 2
    /\ origin[pass[1]] = LocalOrigin /\ origin[pass[2]][1] = "thread"
    /\ \E o \in Ops : invoked[o] = 1

\* C1: a work_finished() that takes the counter from 1 to 0 goes on to stop(), after
\* which the stopped flag is set; a work_finished() that leaves the counter at any
\* other value, a negative one included, calls nothing and leaves the flag alone.
C1_Step ==
    /\ (outstanding_work' = outstanding_work - 1 /\ invoked' = invoked) =>
          IF outstanding_work' = 0
          THEN \E t \in Threads : rpc[t] = "idle" /\ rpc'[t] = "stop"
          ELSE rpc' = rpc /\ stopped' = stopped
    /\ \A t \in Threads : (rpc[t] = "stop" /\ rpc'[t] # "stop") => stopped'
    /\ \A t \in Threads : (rpc[t] # "stop" /\ rpc'[t] = "stop") => outstanding_work' = 0
    /\ \A o \in Ops : (Runs(o) /\ outstanding_work' = 0) => stopped'

C1_WorkFinishedStopsAtZero == [][C1_Step]_vars

C1_Witness ==
    \E t \in Threads : rpc[t] = "mark" /\ stopped /\ outstanding_work < 0

\* C2: a stop() called from another thread while run() is blocked in the wait of
\* the completion queue, with work outstanding and nothing ready, makes run() return,
\* and the context is stopped when it returns.
C2_StopWakesBlockedRun == blocked_stop ~> (lpc = "ret" /\ stopped)

C2_Witness == blocked_stop /\ lpc = "ret" /\ stopped /\ run_ev

\* C3: the destructor stops the context, then sets the shutdown flag, then shuts the
\* completion queue down, then drains it, then releases the arenas; from its first
\* statement on no handler is invoked, whatever is still registered or queued.
C3_Step ==
    /\ (shutdown' /\ ~shutdown) => stopped
    /\ (cq_state' = "shutdown" /\ cq_state # "shutdown") => (shutdown /\ cq_state = "open")
    /\ (cq_state' = "drained" /\ cq_state # "drained") => cq_state = "shutdown"
    /\ (memory_resources' # memory_resources) =>
          (memory_resources' = 0 /\ cq_state = "drained")
    /\ (cq_state' = "drained") =>
          (cq_events' = {} /\ alarm_events' = 0 /\ registered' = {})
    /\ (lpc' \in DtorPcs) => (stopped' /\ invoked' = invoked)

C3_DestructionOrder == [][C3_Step]_vars

C3_Witness ==
    /\ lpc = "destroyed" /\ memory_resources = 0 /\ shutdown
    /\ \E o \in Ops : origin[o] = TagOrigin /\ invoked[o] = 0
    /\ \E o \in Range(remote_head) \cup Range(local_work_queue) : invoked[o] = 0

\* C7: after work_started() directly followed by work_finished() on a context
\* without other work and without queued operations, the next run() returns at once,
\* with false and without having invoked any handler.
C7_IdleStop == entry_pair => (lpc = "ret" /\ ~run_result /\ ~run_cb /\ ~run_ev)

C7_Witness == entry_pair /\ lpc = "ret" /\ stopped /\ outstanding_work = 0

\* C8: run(), run_until(), run_while() and poll() return true exactly when a queued
\* handler ran or an event of the completion queue was taken during the call;
\* run_completion_queue() and poll_completion_queue() return true exactly when an
\* event of the completion queue was taken during the call.
C8_ReturnValue ==
    lpc = "ret" =>
        IF LoopBody(kind) = "do_one_if_not_stopped"
        THEN run_result = (run_cb \/ run_ev)
        ELSE run_result = run_ev

C8_Witness ==
    /\ lpc = "ret" /\ kind = "poll" /\ run_result /\ run_cb /\ ~run_ev

\* C9: run_completion_queue() and poll_completion_queue() invoke no queued handler:
\* an operation in the local or in the remote queue is not invoked by a step of such
\* a call and is still queued after it.
CqOnlyCall ==
    /\ lpc \in {"top", "invoke", "wait"}
    /\ kind \in {"run_completion_queue", "poll_completion_queue"}

Queued == Range(local_work_queue) \cup Range(remote_head) \cup Range(pass)

C9_Step ==
    CqOnlyCall => \A o \in Queued : ~Runs(o) /\ o \in Queued'

C9_CompletionQueueOnly == [][C9_Step]_vars

C9_Witness ==
    /\ lpc = "ret" /\ kind = "run_completion_queue" /\ run_ev
    /\ remote_head # <<>> /\ \A o \in Range(remote_head) : invoked[o] = 0

\* C10: when run() or run_completion_queue() returns, the context is stopped, and a
\* run*() entered with outstanding work starts with the stopped flag cleared.
C10_Step ==
    /\ (lpc' = "ret" /\ kind' \in {"run", "run_completion_queue"}) => stopped'
    /\ (lpc = "idle" /\ lpc' = "top") => (~stopped' /\ outstanding_work > 0)

C10_StoppedOnReturn == [][C10_Step]_vars

C10_Witness ==
    /\ lpc = "ret" /\ kind = "run" /\ stopped /\ outstanding_work > 0 /\ run_cb

\* C11: while a tag is registered with the completion queue, or its event is not yet
\* taken by the loop, the outstanding-work counter is at least one: every such tag
\* holds its own unit of work, the Finish tag of an automatic finish included.
PendingTags == registered \cup {e.tag : e \in cq_events}

AutoFinishPending(o) ==
    /\ o \in PendingTags
    /\ op_call[o] = "Finish" /\ op_tags[o] = 2 /\ op_verb[o] # "finish"

C11_NoFalseIdleness ==
    /\ PendingTags # {} => outstanding_work >= 1
    /\ Cardinality(registered) + Cardinality(cq_events) <= outstanding_work

C11_Witness ==
    /\ \E o \in registered : AutoFinishPending(o)
    /\ outstanding_work = 1 /\ lpc \in {"top", "invoke", "wait"}

\* C13: a unary request registers exactly one tag, the one given to Finish, and its
\* handler runs once with the status of the call whatever the event's ok flag is; when
\* the event is ok, the status OK and the server answers request 42 with 21, run()
\* returns true and the handler sees OK and the response 21.
UnaryOps == {o \in RpcOps : op_verb[o] = "request"}

C13_UnaryRequest ==
    /\ \A o \in UnaryOps :
          /\ op_tags[o] = 1 /\ handler_calls[o] <= 1
          /\ handler_calls[o] = 1 =>
                /\ op_first_ok[o] \in {"true", "false"}
                /\ op_result[o] = rpc_status
                /\ o \notin PendingTags
                /\ (op_first_ok[o] = "true" /\ op_result[o] = "OK") =>
                      response = TestResponse
    /\ (rpc_type = "unary" /\ lpc = "ret" /\ run_ev) => run_result

C13_Witness ==
    /\ lpc = "ret" /\ run_ev /\ run_result
    /\ \E o \in UnaryOps :
          /\ handler_calls[o] = 1 /\ op_first_ok[o] = "true"
          /\ op_result[o] = "OK" /\ response = TestResponse

C13_WitnessNotOk ==
    \E o \in UnaryOps :
        handler_calls[o] = 1 /\ op_first_ok[o] = "false" /\ op_result[o] = "FAILED"

\* C14: once a Finish of the call has completed, started by finish() or automatically,
\* a further finish() registers no tag, takes no unit of work, and completes with the
\* same outcome: it reports the status that Finish delivered, as does every finish()
\* that went through the completion queue.
FinishOps == {o \in RpcOps : op_verb[o] = "finish"}

StartsFinish == next_rpc_op' = next_rpc_op + 1 /\ op_verb'[next_rpc_op] = "finish"

C14_Step ==
    (status_known /\ StartsFinish) =>
        /\ registered' = registered /\ cq_events' = cq_events
        /\ outstanding_work' = outstanding_work
        /\ op_tags'[next_rpc_op] = 0
        /\ handler_calls'[next_rpc_op] = 1
        /\ rpc_status' = rpc_status
        /\ op_result'[next_rpc_op] = Bool(rpc_status = "OK")

C14_FinishIdempotent ==
    /\ [][C14_Step]_vars
    /\ [](\A o \in FinishOps :
              (op_tags[o] >= 1 /\ handler_calls[o] = 1) =>
                  op_result[o] = Bool(rpc_status = "OK"))

C14_Witness ==
    \E o, p \in FinishOps :
        /\ p < o /\ op_tags[p] >= 1 /\ handler_calls[p] = 1
        /\ op_tags[o] = 0 /\ handler_calls[o] = 1 /\ op_result[o] = "false"

C14_WitnessAutomatic ==
    \E o \in FinishOps, p \in RpcOps :
        /\ p < o /\ op_verb[p] \in {"read", "write"} /\ op_tags[p] = 2 /\ handler_calls[p] = 1
        /\ op_tags[o] = 0 /\ handler_calls[o] = 1

\* C15 as stated: on a bidirectional call with writes done issued, a read whose event
\* is not ok triggers an automatic finish, so that the call is finished when the
\* read's handler has run.
BidiOps(verb) == {o \in RpcOps : rpc_type = "bidi" /\ op_verb[o] = verb}

FailedRead(o) == handler_calls[o] = 1 /\ op_first_ok[o] = "false"

C15_Step ==
    (StartsFinish /\ rpc_type = "bidi" /\ rpc_writes_done /\ ~rpc_finished) =>
        /\ registered' = registered \cup {next_rpc_op}
        /\ outstanding_work' = outstanding_work + 1
        /\ op_call'[next_rpc_op] = "Finish"
        /\ rpc_finished'

FirstEventFailed(o) ==
    /\ op_first_ok[o] = "false"
    /\ (op_tags[o] = 2 \/ handler_calls[o] = 1)

AutoFinishStep(o) ==
    \/ op_verb[o] \in {"start", "read_initial_metadata"}
    \/ rpc_type = "server_streaming" /\ op_verb[o] = "read"
    \/ rpc_type = "client_streaming" /\ op_verb[o] = "write"

StartOps == {o \in RpcOps : op_verb[o] = "start"}

C17_StartFailure ==
    \A s \in StartOps :
        /\ handler_calls[s] <= 1
        /\ FirstEventFailed(s) =>
              /\ op_tags[s] = 2 /\ rpc_finished
              /\ handler_calls[s] = 1 =>
                    /\ status_known /\ s \notin PendingTags
                    /\ rpc_status = "FAILED" /\ op_result[s] = "false"
                    /\ \A f \in FinishOps :
                          handler_calls[f] = 1 => (op_result[f] = "false" /\ op_tags[f] = 0)

C17_Witness ==
    \E s \in StartOps, f \in FinishOps :
        /\ FirstEventFailed(s) /\ handler_calls[s] = 1 /\ op_result[s] = "false"
        /\ handler_calls[f] = 1 /\ op_result[f] = "false"
        /\ rpc_type = "client_streaming"

C17_WitnessServerStreaming ==
    \E s \in StartOps, f \in FinishOps :
        /\ FirstEventFailed(s) /\ handler_calls[s] = 1 /\ handler_calls[f] = 1
        /\ rpc_type = "server_streaming"

C17_WitnessBidi ==
    \E s \in StartOps, f \in FinishOps :
        /\ FirstEventFailed(s) /\ handler_calls[s] = 1 /\ handler_calls[f] = 1
        /\ rpc_type = "bidi"

\* C18: a server-streaming read or a read_initial_metadata whose event is not ok
\* completes its handler with false, once, after the automatically initiated Finish
\* has completed, and a finish() called afterwards reports the status that Finish
\* delivered; when the event is ok the handler gets true and no Finish is initiated.
ReadSteps ==
    {o \in RpcOps : \/ op_verb[o] = "read_initial_metadata"
                    \/ rpc_type = "server_streaming" /\ op_verb[o] = "read"}

C18_ReadFailure ==
    \A o \in ReadSteps :
        /\ handler_calls[o] <= 1
        /\ FirstEventFailed(o) =>
              /\ op_tags[o] = 2
              /\ handler_calls[o] = 1 =>
                    /\ status_known /\ o \notin PendingTags
                    /\ op_result[o] = "false"
                    /\ \A f \in FinishOps :
                          (f > o /\ handler_calls[f] = 1) =>
                              (op_tags[f] = 0 /\ op_result[f] = Bool(rpc_status = "OK"))
        /\ (op_first_ok[o] = "true" /\ handler_calls[o] = 1) =>
              (op_result[o] = "true" /\ op_tags[o] = 1)

C18_Witness ==
    \E o \in ReadSteps, f \in FinishOps :
        /\ rpc_type = "server_streaming" /\ op_verb[o] = "read"
        /\ FirstEventFailed(o) /\ handler_calls[o] = 1 /\ op_result[o] = "false"
        /\ f > o /\ handler_calls[f] = 1 /\ op_result[f] = "true"

C18_WitnessOk ==
    \E o \in ReadSteps :
        /\ op_verb[o] = "read_initial_metadata" /\ op_first_ok[o] = "true"
        /\ handler_calls[o] = 1 /\ ~rpc_finished

\* C19: a client-streaming write whose Write event is not ok completes its handler
\* with false, with or without the last-message flag, and a finish() called afterwards
\* reports the status of the call.
ClientWrites == {o \in RpcOps : rpc_type = "client_streaming" /\ op_verb[o] = "write"}

C19_WriteFailure ==
    \A w \in ClientWrites :
        (FirstEventFailed(w) /\ handler_calls[w] = 1) =>
            /\ op_result[w] = "false"
            /\ \A f \in FinishOps :
                  (f > w /\ handler_calls[f] = 1) => op_result[f] = Bool(rpc_status = "OK")

\* The failed write that is reported as a success: the Write event is not ok and the
\* Finish that follows delivers OK.
C19_FailedWriteReportedTrue ==
    \E w \in ClientWrites :
        /\ FirstEventFailed(w) /\ handler_calls[w] = 1 /\ ~op_last[w]
        /\ op_result[w] = "true" /\ rpc_status = "OK"

\* C20: a cancellation request changes nothing but the call's cancellation flag: the
\* pending tags, the queues, the work counter and the steps are as before; the tag of
\* every step that has not completed stays with the completion queue, and a handler
\* runs once, when the event of its tag is taken, whether that event is ok or not.
CancelRequested == try_cancel' /\ ~try_cancel

C20_Step ==
    /\ CancelRequested =>
          UNCHANGED <<registered, cq_events, local_work_queue, remote_head, pass,
                      outstanding_work, rpcFlags, rpcOpVars>>
    /\ \A o \in RpcOps :
          /\ handler_calls'[o] <= 1
          /\ (o \in PendingTags /\ handler_calls'[o] # handler_calls[o]) =>
                \E e \in cq_events : e.tag = o /\ e \notin cq_events'

C20_CancelOnlyRequests ==
    /\ [][C20_Step]_vars
    /\ [](\A o \in RpcOps : (op_tags[o] >= 1 /\ handler_calls[o] = 0) => o \in PendingTags)

C20_Witness ==
    /\ try_cancel /\ lpc = "wait"
    /\ \E o \in registered : op_tags[o] = 1 /\ handler_calls[o] = 0
    /\ \E o \in RpcOps : handler_calls[o] = 1 /\ op_first_ok[o] = "true"
    /\ outstanding_work = 1

\* C12: when a handler throws, the exception ends the run()/poll() call; the throwing
\* operation is no longer queued, the operations that were queued are still queued in
\* the same order, and a later run() invokes each of them, head first, once.
Thrown == lpc' = "thrown" /\ lpc # "thrown"

C12_Step ==
    /\ Thrown =>
          \E o \in Ops :
              /\ Runs(o)
              /\ o \notin Queued'
              /\ InQueue' = SelectSeq(InQueue, LAMBDA x : x # o)
              /\ remote_head' = remote_head
    /\ lpc = "thrown" => (lpc' \in {"thrown", "idle"} /\ invoked' = invoked /\ InQueue' = InQueue)
    /\ \A o \in Ops : invoked'[o] <= 1
    /\ \A o \in Ops : (Runs(o) /\ o \in Range(InQueue)) => o = Head(InQueue)

C12_ExceptionLeavesQueueIntact ==
    /\ [][C12_Step]_vars
    /\ \A o \in Ops :
          (o \in Range(InQueue) /\ invoked[o] = 0 /\ LoopRunning)
              ~> (invoked[o] = 1 \/ ~LoopRunning)

C12_Witness ==
    /\ lpc = "thrown" /\ Len(local_work_queue) >= 2
    /\ origin[local_work_queue[1]][1] = "thread"
    /\ origin[local_work_queue[2]] = LocalOrigin

\* C23: stop() on a context that is already stopped changes nothing: the stopped flag
\* stays set, the remote queue's active marker, both queues and the work counter are
\* as before, and the caller goes on neither to try_mark_active() nor to the alarm,
\* whether the caller is a thread, the destructor or a handler on the loop thread.
C23_Frame == UNCHANGED <<remoteQ, local_work_queue, outstanding_work, alarm_events>>

C23_Step ==
    /\ \A t \in Threads :
          (stopped /\ rpc[t] = "stop" /\ rpc'[t] # "stop") =>
              (rpc'[t] = "idle" /\ stopped' /\ C23_Frame)
    /\ (stopped /\ lpc = "idle" /\ lpc' = "d_shutdown_flag") => (stopped' /\ C23_Frame)
    /\ (stopped /\ stopped') =>
          /\ \A t \in Threads : rpc'[t] = "mark" => rpc[t] = "mark"
          /\ (alarm_events' > alarm_events) =>
                \E t \in Threads : rpc[t] = "alarm" /\ rpc'[t] = "idle"
          /\ (remote_active' /\ ~remote_active) =>
                \E t \in Threads : rpc[t] \in {"mark", "enqueue"} /\ rpc'[t] # rpc[t]

C23_StopIdempotent == [][C23_Step]_vars

C23_Witness ==
    /\ lpc = "d_shutdown_flag" /\ stopped
    /\ ~remote_active /\ alarm_events = 0 /\ outstanding_work > 0

\* C24: reset() clears the stopped flag and nothing else: the work counter, the
\* shutdown flag, the local and the remote queue, the remote queue's active marker
\* and the pending wake-ups are as they were before the call.
C24_Step ==
    (stopped /\ ~stopped' /\ lpc' = lpc) =>
        UNCHANGED <<outstanding_work, shutdown, local_work_queue, remoteQ, alarm_events,
                    check_remote_work, cq_state, memory_resources>>

C24_ResetFrame == [][C24_Step]_vars

C24_Witness ==
    /\ lpc = "ret" /\ kind = "run" /\ ~stopped
    /\ remote_head # <<>> /\ remote_active /\ outstanding_work > 0

\* C28: the shutdown flag is clear as long as the destructor has not started, is set
\* by the destructor's store alone, which comes after the destructor's stop(), and is
\* never cleared: stop(), reset(), work_started(), work_finished() and the run and
\* poll calls leave it as it is.
C28_Step ==
    /\ shutdown => shutdown'
    /\ (~shutdown /\ shutdown') => (lpc = "d_shutdown_flag" /\ stopped)

C28_ShutdownTerminal == [](Alive => ~shutdown) /\ [][C28_Step]_vars

C28_Witness ==
    /\ shutdown /\ stopped /\ lpc = "destroyed"
    /\ outstanding_work > 0 /\ \E o \in Ops : invoked[o] = 1

\* C30: run_while() looks at its condition at the start of every iteration: handlers
\* and events are processed only inside an iteration, which is entered from the
\* start; the step that ends the call at the start of an iteration (the condition
\* was false, or the context was stopped) invokes nothing, takes nothing out of the
\* queues or the completion queue, leaves the counter alone and returns what the call
\* had processed so far, which on entry is false.
C30_Step ==
    kind = "run_while" =>
        /\ (lpc' = "invoke") => lpc \in {"top", "invoke"}
        /\ (lpc' = "wait") => lpc \in {"top", "invoke", "wait"}
        /\ (\E o \in Ops : Runs(o)) => lpc \in {"invoke", "wait"}
        /\ (lpc = "top" /\ lpc' = "ret") =>
              /\ invoked' = invoked
              /\ UNCHANGED <<local_work_queue, remoteQ, pass, cq_events, alarm_events,
                             registered, outstanding_work, stopped>>
              /\ run_result' = (run_cb \/ run_ev)

C30_RunWhileCondition == [][C30_Step]_vars

C30_Witness ==
    /\ kind = "run_while" /\ lpc = "ret" /\ ~stopped
    /\ ~run_result /\ ~run_cb /\ ~run_ev
    /\ local_work_queue # <<>> /\ outstanding_work > 0
    /\ \A o \in Range(local_work_queue) : invoked[o] = 0

\* C29: a run_until() that waits with work outstanding and nothing ready returns (its
\* deadline is reached), and a run_until() on a context that has been stopped, by
\* stop() or by the counter reaching zero, returns as well.
NothingReady ==
    /\ local_work_queue = <<>> /\ pass = <<>> /\ ~check_remote_work
    /\ alarm_events = 0 /\ cq_events = {}

UntilBlocked ==
    /\ kind = "run_until" /\ lpc = "wait"
    /\ NothingReady /\ ~stopped /\ outstanding_work > 0

C29_RunUntilReturns ==
    /\ UntilBlocked ~> (lpc = "ret")
    /\ (kind = "run_until" /\ lpc \in {"top", "invoke", "wait"} /\ stopped) ~> (lpc = "ret")

C29_Witness ==
    /\ kind = "run_until" /\ lpc = "ret" /\ ~stopped
    /\ NothingReady /\ remote_head = <<>>
    /\ outstanding_work > 0 /\ registered # {}

\* C26: a call that tries to mark the remote queue active (an enqueue from a thread,
\* or the try_mark_active() of stop()) reports success exactly when the queue was
\* inactive, and the queue is active afterwards, so of the calls racing on an inactive
\* queue one succeeds; only a caller that succeeded fires the alarm, once; and from
\* one marking until the loop has marked the queue inactive again there is at most
\* one alarm, about to be fired, fired and undelivered, or delivered and seen.
Alarmers == {t \in Threads : rpc[t] = "alarm"}

AlarmsPending ==
    Cardinality(Alarmers) + alarm_events + (IF check_remote_work THEN 1 ELSE 0)

C26_Step ==
    /\ \A t \in Threads :
          (rpc[t] \in {"mark", "enqueue"} /\ rpc'[t] # rpc[t]) =>
              /\ remote_active'
              /\ (rpc'[t] = "alarm") <=> ~remote_active
    /\ \A t \in Threads :
          (rpc'[t] = "alarm" /\ rpc[t] # "alarm") => (~remote_active /\ remote_active')
    /\ (alarm_events' > alarm_events) =>
          /\ alarm_events' = alarm_events + 1
          /\ \E t \in Threads : rpc[t] = "alarm" /\ rpc'[t] = "idle"
    /\ (remote_active /\ ~remote_active') => (AlarmsPending = 1 /\ check_remote_work)

C26_SingleAlarm ==
    /\ [](AlarmsPending <= 1 /\ (remote_active <=> AlarmsPending = 1))
    /\ [][C26_Step]_vars

C26_Witness ==
    \E t, u \in Threads :
        /\ rpc[t] = "alarm" /\ rpc[u] = "mark"
        /\ remote_active /\ alarm_events = 0 /\ remote_head # <<>>

\* C27: no wake-up is lost.  The loop marks the remote queue inactive in the step that
\* detaches the chain, before any operation of the chain is invoked; an operation
\* pushed by a thread is either part of the detached chain or finds the queue as the
\* detach left it, so that while an operation is in the remote chain the queue is
\* active and one alarm is on its way to the loop; and under a loop that keeps running
\* every operation in the remote chain is taken out of it.
C27_Step ==
    /\ (remote_head # <<>> /\ remote_head' = <<>>) =>
          /\ ~remote_active' /\ invoked' = invoked
          /\ Range(remote_head) \subseteq Range(pass')
    /\ \A t \in Threads :
          (rpc[t] = "enqueue" /\ rpc'[t] # "enqueue") =>
              /\ rop[t] \in Range(remote_head')
              /\ remote_active'
              /\ ~remote_active => rpc'[t] = "alarm"

C27_NoLostWakeup ==
    /\ [](remote_head # <<>> => (remote_active /\ AlarmsPending = 1))
    /\ [][C27_Step]_vars
    /\ \A o \in Ops :
          (o \in Range(remote_head) /\ LoopRunning)
              ~> (o \notin Range(remote_head) \/ ~LoopRunning)

C27_Witness ==
    /\ lpc = "invoke" /\ \E o \in Range(pass) : origin[o][1] = "thread"
    /\ remote_head # <<>> /\ remote_active /\ alarm_events = 1

\* C25: an operation object is linked at most once, in the local queue, in the remote
\* queue or with the completion source; the step that invokes it finds it linked and
\* takes it out before its callback runs, so that afterwards it is linked only if the
\* callback put it back (then once, at the tail of the local queue or as a
\* registered tag), every other linked operation is linked as before, and one
\* enqueue is followed by at most one invocation.
Count(q, o) == Cardinality({i \in DOMAIN q : q[i] = o})

Links(o) ==
    Count(local_work_queue, o) + Count(pass, o) + Count(remote_head, o)
        + Cardinality({e \in cq_events : e.tag = o}) + (IF o \in registered THEN 1 ELSE 0)

C25_Step ==
    \A o \in Ops :
        Runs(o) =>
            /\ Links(o) = 1 /\ invoked'[o] = invoked[o] + 1
            /\ (pass # <<>> /\ o = front(pass)) => pass' = pop_front(pass)
            /\ Links(o)' <= 1
            /\ (Links(o)' = 1) =>
                  \/ o \in registered'
                  \/ local_work_queue' = push_back(local_work_queue, o)
            /\ \A x \in Ops \ {o} : Links(x) = 1 => Links(x)' = 1

C25_LinkedOnce ==
    /\ [](\A o \in Ops : Links(o) <= 1 /\ invoked[o] + Links(o) <= MaxInvocations)
    /\ [][C25_Step]_vars

C25_Witness ==
    \E o \in Ops :
        /\ invoked[o] = 1 /\ lpc = "invoke"
        /\ Len(local_work_queue) >= 1 /\ local_work_queue[Len(local_work_queue)] = o
        /\ pass # <<>> /\ o \notin Range(pass)

\* C22: a callback registered with notify_when_done is invoked at most once, by a
\* step of the loop thread inside a run or poll call, and only when the event that
\* reports its call done has been produced by the completion source; with its
\* invocation it leaves the registry, and a callback whose call is never reported
\* done, or whose context is destroyed first, is not invoked.
NotifyOps == {o \in Ops : origin[o] = NotifyOrigin}

DoneReported(o) == \E e \in cq_events : e.tag = o

C22_Step ==
    \A o \in Ops :
        /\ origin'[o] = NotifyOrigin => invoked'[o] <= 1
        /\ (Runs(o) /\ origin[o] = NotifyOrigin) =>
              /\ DoneReported(o) /\ lpc = "wait"
              /\ o \notin registered' /\ ~DoneReported(o)'
        /\ (o \in NotifyOps /\ o \in registered /\ o \notin registered') =>
              (invoked' = invoked /\ (DoneReported(o)' \/ cq_state' = "drained"))

C22_NotifiedOnce ==
    /\ [](\A o \in NotifyOps : invoked[o] = 1 => (o \notin registered /\ ~DoneReported(o)))
    /\ [][C22_Step]_vars

C22_Witness ==
    /\ lpc = "ret" /\ run_ev
    /\ \E o \in NotifyOps : invoked[o] = 1
    /\ \E o \in NotifyOps : invoked[o] = 0 /\ o \in registered

\* C21: on a started call whose peer never answers, every step that is pending when
\* cancellation has been requested gets its handler invoked, and the finish of such
\* a call reports the status CANCELLED.
C21_StepsCanBeCancelled ==
    /\ \A o \in RpcOps : (Outstanding(o) /\ try_cancel) ~> (handler_calls[o] = 1)
    /\ [](\A o \in RpcOps :
            (op_verb[o] = "finish" /\ handler_calls[o] = 1) =>
                (status_known /\ rpc_status = "CANCELLED" /\ op_result[o] = "false"))

C21_Witness ==
    /\ rpc_type = "bidi" /\ try_cancel /\ rpc_status = "CANCELLED"
    /\ \E o \in RpcOps :
          op_verb[o] = "read" /\ op_first_ok[o] = "false" /\ handler_calls[o] = 1
    /\ \E o \in RpcOps : op_verb[o] = "finish" /\ op_tags[o] = 2 /\ handler_calls[o] = 1

\* C31: poll() and poll_completion_queue() do not block: their wait on the completion
\* queue has the deadline zero, so a call that finds nothing ready returns, with
\* work outstanding as well, and a call that has processed nothing returns false.
PollCall == kind \in {"poll", "poll_completion_queue"}

PollIdle ==
    /\ PollCall /\ lpc = "wait"
    /\ alarm_events = 0 /\ cq_events = {} /\ outstanding_work > 0

C31_Step ==
    (PollCall /\ lpc = "wait" /\ lpc' = "ret" /\ ~run_cb' /\ ~run_ev') =>
        (~run_result' /\ invoked' = invoked /\ outstanding_work' = outstanding_work)

C31_PollNeverBlocks ==
    /\ []((PollCall /\ lpc = "wait") => WaitDeadline = "TIME_ZERO")
    /\ [][C31_Step]_vars
    /\ PollIdle ~> (lpc = "ret")

C31_Witness ==
    /\ kind = "poll_completion_queue" /\ lpc = "ret" /\ ~run_result /\ ~stopped
    /\ outstanding_work > 0 /\ registered # {} /\ cq_events = {}

\* C32: a stop() made on the loop thread, by a handler or by the work_finished() that
\* follows a handler, sets the stopped flag and touches neither the remote queue's
\* active marker nor the alarm; a stopped loop does not enter the wait on the
\* completion queue but returns; and what is in the local or in the remote queue
\* while the loop is stopped is neither invoked nor taken out.
StopOnLoopThread == ~stopped /\ stopped' /\ \E o \in Ops : Runs(o)

StoppedInCall == stopped /\ lpc \in {"top", "invoke", "wait"}

C32_Step ==
    /\ StopOnLoopThread =>
          /\ remote_active' = remote_active /\ remote_head' = remote_head
          /\ alarm_events' = alarm_events
          /\ lpc' # "wait"
    /\ (lpc # "wait" /\ lpc' = "wait") => ~stopped
    /\ StoppedInCall =>
          /\ IsPrefix(local_work_queue, local_work_queue')
          /\ Range(remote_head) \subseteq Range(remote_head')
          /\ \A o \in Range(local_work_queue) \cup Range(remote_head) : ~Runs(o)

C32_StopInsideLoop ==
    /\ [][C32_Step]_vars
    /\ (stopped /\ lpc \in {"top", "invoke"}) ~> (lpc = "ret")

C32_Witness ==
    /\ lpc = "ret" /\ stopped /\ run_cb /\ outstanding_work > 0
    /\ ~remote_active /\ alarm_events = 0 /\ \A t \in Threads : rpc[t] = "idle"
    /\ local_work_queue # <<>> /\ \A o \in Range(local_work_queue) : invoked[o] = 0

\* C33: a client-streaming write flagged last marks the writes done as its Write is
\* issued and issues a Finish on its own tag when the Write event is taken, ok or not;
\* a write without the flag issues the Finish only when its Write event is not ok.
\* The handler runs once: with true as the ok event of a write without the flag is
\* taken, otherwise as the Finish event is taken, with whether the status is OK.
TakenEvents(o) == {e \in cq_events : e.tag = o /\ e \notin cq_events'}

IssuesWrite(o) ==
    /\ o = next_rpc_op /\ next_rpc_op' = o + 1
    /\ rpc_type = "client_streaming" /\ op_verb'[o] = "write" /\ op_tags'[o] = 1

C33_Step ==
    \A o \in RpcOps :
        /\ IssuesWrite(o) =>
              /\ op_call'[o] = "Write" /\ o \in registered'
              /\ op_last'[o] => rpc_writes_done'
              /\ ~op_last'[o] => rpc_writes_done' = rpc_writes_done
        /\ \A e \in TakenEvents(o) :
              (o \in ClientWrites /\ op_call[o] = "Write") =>
                  IF op_last[o] \/ ~e.ok
                  THEN /\ op_call'[o] = "Finish" /\ o \in registered'
                       /\ rpc_finished'
                       /\ handler_calls'[o] = 0
                  ELSE /\ handler_calls'[o] = 1 /\ op_result'[o] = "true"
                       /\ o \notin registered'
                       /\ rpc_finished' = rpc_finished
        /\ \A e \in TakenEvents(o) :
              (o \in ClientWrites /\ op_call[o] = "Finish") =>
                  /\ handler_calls[o] = 0 /\ handler_calls'[o] = 1
                  /\ op_result'[o] = Bool(rpc_status' = "OK")
                  /\ o \notin registered'

C33_ClientStreamingWrite ==
    /\ [][C33_Step]_vars
    /\ [](\A o \in ClientWrites : handler_calls[o] <= 1)

C33_Witness ==
    \E w, v \in ClientWrites :
        /\ v < w /\ ~op_last[v] /\ op_tags[v] = 1 /\ op_result[v] = "true"
        /\ op_last[w] /\ op_first_ok[w] = "true" /\ op_tags[w] = 2
        /\ handler_calls[w] = 1 /\ op_result[w] = "true"

\* C34: a finish() on a call that is not finished issues WritesDone and, as its
\* event is taken, Finish, when the writes are not done, and Finish alone when they
\* are; over the life of a call WritesDone is issued at most once; the call is
\* finished while a Finish tag is pending; the handler of the finish runs once, as
\* the Finish event is taken.
WritesDoneSignalled == rpc_type = "server_streaming" \/ rpc_writes_done

IssuedWritesDone ==
    {o \in RpcOps : \/ op_verb[o] = "writes_done" /\ op_tags[o] >= 1
                    \/ op_verb[o] = "finish" /\ (op_call[o] = "WritesDone" \/ op_tags[o] = 2)}

C34_Step ==
    /\ (StartsFinish /\ ~rpc_finished) =>
          /\ next_rpc_op \in registered' /\ op_tags'[next_rpc_op] = 1
          /\ handler_calls'[next_rpc_op] = 0
          /\ IF WritesDoneSignalled
             THEN op_call'[next_rpc_op] = "Finish" /\ rpc_finished'
             ELSE op_call'[next_rpc_op] = "WritesDone" /\ ~rpc_finished'
    /\ \A o \in FinishOps : \A e \in TakenEvents(o) :
          IF op_call[o] = "WritesDone"
          THEN /\ op_call'[o] = "Finish" /\ o \in registered' /\ rpc_finished'
               /\ op_tags'[o] = 2 /\ handler_calls'[o] = 0
          ELSE /\ op_call[o] = "Finish" /\ rpc_finished
               /\ handler_calls[o] = 0 /\ handler_calls'[o] = 1
               /\ op_result'[o] = Bool(rpc_status' = "OK")
               /\ o \notin registered'

C34_ExplicitFinish ==
    /\ [][C34_Step]_vars
    /\ [](/\ Cardinality(IssuedWritesDone) <= 1
          /\ \A o \in FinishOps :
                /\ handler_calls[o] <= 1
                /\ (op_call[o] = "Finish" /\ handler_calls[o] = 0) => rpc_finished)

C34_Witness ==
    \E w \in ClientWrites, f \in FinishOps :
        /\ w < f /\ ~op_last[w] /\ op_result[w] = "true"
        /\ op_tags[f] = 2 /\ op_first_ok[f] = "false"
        /\ handler_calls[f] = 1 /\ op_result[f] = "true"

\* C35: a read, a write and a writes_done of a bidirectional call register one tag
\* and give their handler the ok value of that tag's event; a write flagged last
\* marks the writes done as the Write is issued; a writes_done marks them done as
\* its event is taken, ok or not.
BidiSteps == BidiOps("read") \cup BidiOps("write") \cup BidiOps("writes_done")

IssuesBidiStep(o) ==
    /\ o = next_rpc_op /\ next_rpc_op' = o + 1 /\ rpc_type = "bidi"
    /\ op_verb'[o] \in {"read", "write", "writes_done"} /\ op_tags'[o] = 1

C35_Step ==
    \A o \in RpcOps :
        /\ IssuesBidiStep(o) =>
              /\ registered' = registered \cup {o}
              /\ op_call'[o] = CASE op_verb'[o] = "read" -> "Read"
                                  [] op_verb'[o] = "write" -> "Write"
                                  [] OTHER -> "WritesDone"
              /\ rpc_writes_done' = (rpc_writes_done \/ (op_verb'[o] = "write" /\ op_last'[o]))
              /\ ~rpc_finished'
        /\ \A e \in TakenEvents(o) :
              o \in BidiSteps =>
                  /\ handler_calls[o] = 0 /\ handler_calls'[o] = 1
                  /\ op_result'[o] = Bool(e.ok)
                  /\ o \notin registered' /\ op_tags'[o] = 1
                  /\ rpc_writes_done' = (rpc_writes_done \/ op_verb[o] = "writes_done")
                  /\ rpc_finished' = rpc_finished

C35_BidiSteps ==
    /\ [][C35_Step]_vars
    /\ [](\A o \in BidiSteps : op_tags[o] <= 1 /\ handler_calls[o] <= 1)

C35_Witness ==
    \E r, w, d \in BidiSteps :
        /\ op_verb[r] = "read" /\ op_result[r] = "true" /\ op_tags[r] = 1
        /\ op_verb[w] = "write" /\ ~op_last[w] /\ op_result[w] = "true"
        /\ op_verb[d] = "writes_done" /\ op_first_ok[d] = "false"
        /\ handler_calls[d] = 1 /\ op_result[d] = "false" /\ rpc_writes_done

\* C36: a signal emitted on the cancellation slot of a step requests TryCancel()
\* exactly when its type has the terminal or the partial bit; a signal of another
\* type leaves the call as it was, and the pending step completes as it would have:
\* no call ends CANCELLED unless a signal with one of the two bits was emitted.
Signals == {emitted[i] : i \in 1..Len(emitted)}

Emits(type) == emitted' = Append(emitted, type)

C36_Step ==
    \A type \in CancellationTypes :
        Emits(type) =>
            /\ try_cancel' = (try_cancel \/ "terminal" \in type \/ "partial" \in type)
            /\ UNCHANGED <<registered, cq_events, outstanding_work, stopped, rpcFlags,
                           rpcOpVars, local_work_queue, remoteQ, lpc>>

C36_CancellationType ==
    /\ [][C36_Step]_vars
    /\ [](/\ try_cancel = (\E type \in Signals : "terminal" \in type \/ "partial" \in type)
          /\ rpc_status = "CANCELLED" => try_cancel)

C36_Witness ==
    \E r \in BidiOps("read"), f \in FinishOps :
        /\ emitted = <<{"total"}>> /\ ~try_cancel
        /\ op_result[r] = "true" /\ r < f
        /\ handler_calls[f] = 1 /\ rpc_status = "OK"

\* A signal with the partial bit, and the call that ended CANCELLED after it.
C36_WitnessCancelled ==
    \E f \in FinishOps :
        /\ emitted = <<{"partial", "total"}>> /\ try_cancel
        /\ handler_calls[f] = 1 /\ rpc_status = "CANCELLED"

\* C37: under every interleaving of work_started() and work_finished() on several
\* threads, the stop() that work_finished() calls after taking the counter from one
\* to zero sets the stopped flag only while the counter is not above zero.
StopsFromWorkFinished(t) == rpc[t] = "stop" /\ rpc'[t] # "stop" /\ ~stopped /\ stopped'

C37_Step == \A t \in Threads : StopsFromWorkFinished(t) => ~(outstanding_work > 0)

C37_StopsOnlyAtZero == [][C37_Step]_vars

\* C38: over the life of a call at most one Finish tag is registered, under every
\* order in which the events of its steps are taken and for either ok value of
\* every event, that of a Finish included.
C38_AtMostOneFinish == finish_tags <= 1

\* Two steps in progress whose events are both not ok, each registering a Finish.
C38_TwoStepsFinish ==
    \E m, w \in RpcOps :
        /\ op_verb[m] = "read_initial_metadata" /\ op_verb[w] = "write"
        /\ op_first_ok[m] = "false" /\ op_first_ok[w] = "false"
        /\ op_tags[m] = 2 /\ op_tags[w] = 2 /\ finish_tags = 2

\* A start whose Finish event is not ok registers Finish once more.
C38_StartFinishesTwice ==
    \E o \in RpcOps : op_verb[o] = "start" /\ op_tags[o] = 3 /\ finish_tags = 2

\* C39: the state of a call only moves forward: once the writes are done they stay
\* done, once the call is finished it stays finished, whatever step acts; and the
\* call is finished as every Finish tag is registered and for as long as a Finish
\* tag is pending.
FinishPending(o) == rpc_type # "unary" /\ op_call[o] = "Finish" /\ o \in PendingTags

RegistersFinish(o) ==
    /\ rpc_type # "unary"
    /\ op_call'[o] = "Finish" /\ o \in registered'
    /\ ~(op_call[o] = "Finish" /\ o \in registered)

C39_Step ==
    /\ rpc_writes_done => rpc_writes_done'
    /\ rpc_finished => rpc_finished'
    /\ \A o \in RpcOps : RegistersFinish(o) => rpc_finished'

C39_StateMovesForward ==
    /\ [][C39_Step]_vars
    /\ [](\A o \in RpcOps : FinishPending(o) => rpc_finished)

C39_Witness ==
    \E w \in ClientWrites, m \in RpcOps :
        /\ op_verb[m] = "read_initial_metadata" /\ handler_calls[m] = 1
        /\ op_last[w] /\ op_tags[w] = 2 /\ FinishPending(w)
        /\ rpc_writes_done /\ rpc_finished

\* C40: for every step of the high-level client and every sequence of ok values its
\* events come with, the handler runs once, as the event of the last tag of the
\* step's chain is taken and never while a tag of the step is pending; and the
\* work counter is back at its value once the step has completed: it counts the
\* steps with a pending tag and nothing else.
StartedSteps == {o \in RpcOps : op_verb[o] # "none"}

C40_Step ==
    \A o \in StartedSteps :
        /\ handler_calls'[o] >= handler_calls[o]
        /\ \A e \in TakenEvents(o) :
              /\ handler_calls[o] = 0
              /\ \/ handler_calls'[o] = 1 /\ o \notin PendingTags'
                    /\ outstanding_work' = outstanding_work - 1
                 \/ handler_calls'[o] = 0 /\ o \in registered'
                    /\ op_tags'[o] = op_tags[o] + 1
                    /\ outstanding_work' = outstanding_work
        /\ (handler_calls'[o] = 1 /\ handler_calls[o] = 0) =>
              \/ TakenEvents(o) # {}
              \/ op_tags[o] = 0 /\ rpc_finished /\ outstanding_work' = outstanding_work

C40_HandlerOnceWorkRestored ==
    /\ [][C40_Step]_vars
    /\ [](/\ \A o \in StartedSteps :
                /\ handler_calls[o] <= 1
                /\ handler_calls[o] = 1 <=> o \notin PendingTags
          /\ outstanding_work = Cardinality(PendingTags))

C40_Witness ==
    \E o, m \in StartedSteps :
        /\ op_verb[o] = "start" /\ op_tags[o] = 2 /\ handler_calls[o] = 1
        /\ op_verb[m] = "finish" /\ op_tags[m] = 0 /\ handler_calls[m] = 1
        /\ outstanding_work = 0 /\ PendingTags = {}

====
